---- MODULE Spec2Model ----
(***************************************************************************)
(* Verification model of the intrinio realtime Go SDK.                     *)
(*                                                                         *)
(* Part I   Session (client.go): Start, Join, Leave, LeaveAll, Stop, the   *)
(*          read task, the write task, the worker loop, the reconnect      *)
(*          task with doBackoff and tryResetWebSocket, and the network.    *)
(*          One application thread drives the client; it calls Start       *)
(*          once, then Join and Leave in any order, then Stop once.        *)
(* Part II  Composite cache (composite package): the set operations of     *)
(*          the latest-event slots, called by one task and by two          *)
(*          workers at once.                                               *)
(*                                                                         *)
(* Every step of a task between two points where another task can          *)
(* observe or disturb it is one action; the tasks interleave freely.       *)
(* The unsynchronised flags isStopped and isClosed are read and written    *)
(* as single words.                                                        *)
(***************************************************************************)
EXTENDS Integers, Sequences, FiniteSets, TLC

(***************************************************************************)
(* Bounds.                                                                 *)
(***************************************************************************)
\* capacity of writeChannel in the model (make(chan []byte, 1000) in the code)
WriteCap == 2
\* capacity of readChannel in the model (MAX_OPTIONS_QUEUE_DEPTH in the code)
ReadCap == 1
\* consecutive failed attempts the environment inflicts on one doBackoff loop
MaxFails == 6

(***************************************************************************)
(* Program constants and pure helpers of client.go.                        *)
(***************************************************************************)
selfHealBackoffs == <<10, 30, 60, 300, 600>>

\* NewOptionsClient with onTrade set and onQuote nil: workerCount 1, then ++
workerCount == 2

\* channel keys the application uses; Blank is a key that TrimSpace empties
Keys == {"AAPL", "MSFT"}
Blank == " "
Symbols == Keys \cup {Blank}

\* strings.TrimSpace(symbol) on the symbols above
TrimSpace(s) == IF s = Blank THEN "" ELSE s

min(a, b) == IF a < b THEN a ELSE b

\* composeJoinMsg / composeLeaveMsg: opcode byte and channel.  The third
\* component is not on the wire: it records that Stop's LeaveAll sent the frame.
composeJoinMsg(symbol) == <<74, symbol, FALSE>>
composeLeaveMsg(symbol) == <<76, symbol, FALSE>>
StopLeaveMsg(symbol) == <<76, symbol, TRUE>>

VARIABLES
    \* ---- Client fields ----
    isStopped,           \* client.isStopped
    isClosed,            \* client.isClosed
    subscriptions,       \* client.subscriptions, the ledger (set of keys)
    writeChannel,        \* client.writeChannel (sequence of frames)
    readChannel,         \* len(client.readChannel)
    wsConn,              \* client.wsConn: "nil" or "conn" (the latest dialed)
    tokenFresh,          \* time.Since(client.tokenUpdateTime) < 24h
    closeWg,             \* client.closeWg counter (workers not yet done)
    \* ---- environment ----
    connLive,            \* the latest dialed connection is open end to end
    closeReceived,       \* the server has received a close frame on it
    crashed,             \* the process died of a run-time panic
    \* ---- tasks ----
    appPc,               \* where the application thread is
    appKey,              \* the symbol / key of the call in progress
    readPc,              \* where the read task is
    writePc,             \* where the write task is
    remainingWriteCount, \* local of write()
    rcPc,                \* where the reconnect task is
    boI, boFails,        \* doBackoff: index i, failed calls of fn so far
    dialLedger,          \* the ledger when the range of the rejoin loop began
    visited,             \* keys the rejoin loop has sent a join frame for
    gone,                \* keys deleted from the ledger during the range
    clearPending,        \* a reconnect task has isClosed = false left to do
    \* ---- observation ----
    ledgerFrames,        \* per key: join frames sent by Join minus leave
                         \* frames sent by Leave / LeaveAll
    leaveState,          \* per key: "-" not in the ledger at Stop();
                         \* "pending" the leave frame of Stop has not been
                         \* passed to WriteMessage; "sent" it has, on an open
                         \* connection; "failed" it has, on a closed one
    closeFrame,          \* the close control frame: "none" not passed to
                         \* WriteControl; "sent" passed on an open
                         \* connection; "failed" passed on a closed one
    frameAfterClose      \* a frame was written after the close control frame

sessVars == <<isStopped, isClosed, subscriptions, writeChannel,
              readChannel, wsConn, tokenFresh, closeWg, connLive,
              closeReceived, crashed, appPc, appKey, readPc, writePc,
              remainingWriteCount, rcPc, boI, boFails, dialLedger, visited,
              gone, clearPending, ledgerFrames, leaveState, closeFrame,
              frameAfterClose>>

\* the sleep the active doBackoff loop uses: backoff = selfHealBackoffs[i]
backoff == selfHealBackoffs[boI + 1]

\* Stop() has been entered by the application
StopCalled == appPc \in {"leaveAll", "leaveAllDel", "wait", "stopped"}

(***************************************************************************)
(* The client as NewOptionsClient returns it.                              *)
(***************************************************************************)
SessInit ==
    /\ isStopped = TRUE
    /\ isClosed = TRUE
    /\ subscriptions = {}
    /\ writeChannel = <<>>
    /\ readChannel = 0
    /\ wsConn = "nil"
    /\ tokenFresh = FALSE
    /\ closeWg = 0
    /\ connLive = FALSE
    /\ closeReceived = FALSE
    /\ crashed = FALSE
    /\ appPc = "created"
    /\ appKey = Blank
    /\ readPc = "none"
    /\ writePc = "none"
    /\ remainingWriteCount = 0
    /\ rcPc = "none"
    /\ boI = 0
    /\ boFails = 0
    /\ dialLedger = {}
    /\ visited = {}
    /\ gone = {}
    /\ clearPending = FALSE
    /\ ledgerFrames = [k \in Keys |-> 0]
    /\ leaveState = [k \in Keys |-> "-"]
    /\ closeFrame = "none"
    /\ frameAfterClose = FALSE

\* an index that stops one entry short of the end of the table
nextBackoffIndexShort(i) == min(i + 1, Len(selfHealBackoffs) - 2)

\* doBackoff: i = min(i+1, len(selfHealBackoffs)-1)
nextBackoffIndex(i) == min(i + 1, Len(selfHealBackoffs) - 1)

\* a Join that does not consult the ledger
needsJoinAlways(symbol) == TRUE

\* Join: !client.subscriptions[symbol]
needsJoin(symbol) == symbol \notin subscriptions

\* Leave: client.subscriptions[symbol]
needsLeave(symbol) == symbol \in subscriptions

\* a count that misses the last frame of the queue
drainAllButLast == Len(writeChannel) - 1

\* write(): remainingWriteCount := len(client.writeChannel)
drainCount == Len(writeChannel)

\* tryResetWebSocket: the range over client.subscriptions is exhausted once
\* every key that was in the map when the range began and has not been
\* deleted since has been produced; a key inserted during the range may be
\* produced or skipped
rangeDone == (dialLedger \ gone) \subseteq visited

\* the function reconnect passes to doBackoff starts an attempt: with a token
\* younger than 24h it dials at once (tryResetWebSocket), otherwise it first
\* requests a token (trySetToken)
attemptPc == IF tokenFresh THEN "dial" ELSE "auth"

\* client.wsConn.WriteMessage / WriteControl: the frame goes out if the
\* connection is open, otherwise the call returns an error, which write()
\* ignores
outcome == IF connLive THEN "sent" ELSE "failed"

\* the observation of client.wsConn.WriteMessage(BinaryMessage, f)
written(f) ==
    IF f[1] = 76 /\ f[3] THEN [leaveState EXCEPT ![f[2]] = outcome]
    ELSE leaveState

(***************************************************************************)
(* Part II.  The composite cache: latest-event slots and their gates.      *)
(***************************************************************************)
\* largest timestamp of an event in the model
MaxTs == 3

Timestamps == 1 .. MaxTs

\* the Type field of a quote or of a quote candlestick
QuoteTypes == {"ASK", "BID", "OTHER"}

\* a nil pointer, and an event with its Timestamp and (for quotes) its Type
NilEvent == [nil |-> TRUE, ts |-> 0, type |-> "-"]
Events == {[nil |-> FALSE, ts |-> t, type |-> "-"] : t \in Timestamps}
TypedEvents ==
    {[nil |-> FALSE, ts |-> t, type |-> q] : t \in Timestamps, q \in QuoteTypes}

\* the worker tasks that call the cache at the same time
Workers == {"w1", "w2", "w3"}

VARIABLES
    contract,   \* one optionsContractData: its latest* fields
    security,   \* one securityData: its latest* fields
    setter,     \* the set operation this cache is exercised with
    lastCall,   \* the last completed set operation: slot, argument, slot
                \* content before the call, result
    wPc,        \* per worker: "idle", or "store" between the test and the
                \* assignment of SetTrade
    wArg,       \* per worker: the trade of its SetTrade in progress
    maxDone     \* largest timestamp of a SetTrade that has returned

cacheVars == <<contract, security, setter, lastCall, wPc, wArg, maxDone>>

ContractSlots ==
    {"latestTrade", "latestQuote", "latestUnusualActivity",
     "latestTradeCandleStick", "latestAskQuoteCandleStick",
     "latestBidQuoteCandleStick"}

SecuritySlots ==
    {"latestTrade", "latestAskQuote", "latestBidQuote",
     "latestTradeCandleStick", "latestAskQuoteCandleStick",
     "latestBidQuoteCandleStick"}

Setters ==
    {"SetTrade", "SetQuote", "SetUnusualActivity", "SetTradeCandleStick",
     "SetQuoteCandleStick", "SetEquitiesTrade", "SetEquitiesQuote",
     "SetEquitiesTradeCandleStick", "SetEquitiesQuoteCandleStick"}

NoCall == [slot |-> "-", arg |-> NilEvent, before |-> NilEvent, result |-> FALSE]

\* NewOptionsContractData / NewSecurityData: every slot is nil; no worker
\* is inside a call
CacheNew ==
    /\ contract = [s \in ContractSlots |-> NilEvent]
    /\ security = [s \in SecuritySlots |-> NilEvent]
    /\ lastCall = NoCall
    /\ wPc = [w \in Workers |-> "idle"]
    /\ wArg = [w \in Workers |-> NilEvent]
    /\ maxDone = 0

\* a gate that accepts an event as old as the stored one
newerOrSame(event, stored) == event.ts >= stored.ts

\* trade.Timestamp > o.latestTrade.Timestamp, and for the candlesticks of a
\* security tradeCandleStick.Timestamp.After(...)
newer(event, stored) == event.ts > stored.ts

\* the condition of SetTrade, SetQuote, SetUnusualActivity,
\* SetTradeCandleStick, SetEquitiesTrade, SetEquitiesTradeCandleStick:
\* slot == nil || (event != nil && event.Timestamp > slot.Timestamp)
accepts(event, stored) == stored.nil \/ (~event.nil /\ newer(event, stored))

\* the condition of one branch of SetQuoteCandleStick, SetEquitiesQuote,
\* SetEquitiesQuoteCandleStick, entered with a non-nil event:
\* slot == nil || event.Timestamp > slot.Timestamp
acceptsTyped(event, stored) == stored.nil \/ newer(event, stored)

\* a set operation with one slot, on record r (contract or security)
setSlot(r, slot, event) ==
    IF accepts(event, r[slot]) THEN [r EXCEPT ![slot] = event] ELSE r

\* the record of the call that has just returned
called(slot, event, stored, result) ==
    [slot |-> slot, arg |-> event, before |-> stored, result |-> result]

\* a set operation that files asks under bid and bids under ask
typedSlotSwapped(event, ask, bid) ==
    IF event.nil THEN "-"
    ELSE IF event.type = "ASK" THEN bid
    ELSE IF event.type = "BID" THEN ask
    ELSE "-"

\* a set operation that picks the ask or the bid slot by the event's Type;
\* a nil event and an event of another type return false
typedSlot(event, ask, bid) ==
    IF event.nil THEN "-"
    ELSE IF event.type = "ASK" THEN ask
    ELSE IF event.type = "BID" THEN bid
    ELSE "-"

setTyped(r, event, ask, bid) ==
    LET slot == typedSlot(event, ask, bid) IN
    IF slot # "-" /\ acceptsTyped(event, r[slot])
    THEN [r EXCEPT ![slot] = event] ELSE r

calledTyped(r, event, ask, bid) ==
    LET slot == typedSlot(event, ask, bid) IN
    IF slot = "-" THEN called("-", event, NilEvent, FALSE)
    ELSE called(slot, event, r[slot], acceptsTyped(event, r[slot]))

(***************************************************************************)
(* Part III.  The composite cache as a tree: the dataCache with its        *)
(* securities map, each securityData with its contracts map, the           *)
(* optionsContractData objects, and the observers the set operations       *)
(* schedule.                                                               *)
(***************************************************************************)
\* most observer invocations scheduled and not yet run
MaxPending == 3

\* a map with no entry: make(map[string]...)
EmptyMap == [k \in {} |-> k]

\* m[k] = v
put(m, k, v) == [x \in DOMAIN m \cup {k} |-> IF x = k THEN v ELSE m[x]]

\* a ticker symbol padded with '_' to the six bytes it takes in a contract id
Pad(symbol) == symbol \o [i \in 1 .. (6 - Len(symbol)) |-> "_"]

\* expiration date (6 bytes), 'C' or 'P', strike (8 bytes)
Suffix(pc) ==
    <<"2", "4", "0", "1", "1", "9", pc, "0", "0", "1", "5", "0", "0", "0", "0">>

\* the 21-byte contract id of an option on symbol
ContractId(symbol, pc) == Pad(symbol) \o Suffix(pc)

\* strings.TrimRight(s, "_")
RECURSIVE TrimRight(_)
TrimRight(s) ==
    IF s # <<>> /\ s[Len(s)] = "_" THEN TrimRight(SubSeq(s, 1, Len(s) - 1))
    ELSE s

\* OptionTrade.GetUnderlyingSymbol, OptionQuote.GetUnderlyingSymbol
GetUnderlyingSymbol(contractId) == TrimRight(SubSeq(contractId, 1, 6))

\* the least element of a non-empty set of numbers
least(S) == CHOOSE i \in S : \A j \in S : i <= j

\* extractTickerFromContract: the bytes before the first "__", or the first
\* six bytes when the id holds no "__"; "" for an id shorter than six bytes
extractTickerFromContract(contractId) ==
    IF Len(contractId) < 6 THEN <<>>
    ELSE LET found == {i \in 1 .. (Len(contractId) - 1) :
                          contractId[i] = "_" /\ contractId[i + 1] = "_"}
         IN  IF found # {} THEN SubSeq(contractId, 1, least(found) - 1)
             ELSE SubSeq(contractId, 1, 6)

\* the symbols of the equity events and the contracts of the option events
\* delivered to the cache
TreeTickers == {<<"A", "B">>, <<"C", "D">>}
TreeContracts == {ContractId(<<"A", "B">>, "C"), ContractId(<<"A", "B">>, "P")}

\* an event with the Symbol or ContractId it carries
EventsOn(ids) ==
    {[nil |-> FALSE, ts |-> t, type |-> "-", id |-> i] :
        t \in Timestamps, i \in ids}
TypedEventsOn(ids) ==
    {[nil |-> FALSE, ts |-> t, type |-> q, id |-> i] :
        t \in Timestamps, q \in QuoteTypes, i \in ids}

\* the set operations of the dataCache for option events and equity events
OptionSetters ==
    {"SetOptionsTrade", "SetOptionsQuote", "SetOptionsRefresh",
     "SetOptionsUnusualActivity", "SetOptionsTradeCandleStick",
     "SetOptionsQuoteCandleStick"}
EquitySetters ==
    {"SetEquityTrade", "SetEquityQuote", "SetEquityTradeCandleStick",
     "SetEquityQuoteCandleStick"}

\* the tasks that call the dataCache at the same time
Tasks == {"t1", "t2"}

\* the set operations of the dataCache for supplementary data
SuppSetters ==
    {"SetSupplementaryDatum", "SetSecuritySupplementalDatum",
     "SetOptionSupplementalDatum"}

\* a nil *float64, and the float64 variables the callers point to: an
\* address and the number stored there (two of them hold the same number)
NilPtr == [addr |-> 0, val |-> 0]
Cells ==
    {[addr |-> 1, val |-> 1], [addr |-> 2, val |-> 1], [addr |-> 3, val |-> 2]}

\* the key of the supplementary data written
SuppKeys == {"DividendYield"}

\* the merge functions the callers pass: the default one of
\* NewGreekClient, which returns the new pointer, and one that keeps the
\* old pointer
Updates == {"takeNew", "keepOld"}

\* the maps of supplementary data that tasks write at the same time: the one
\* of the dataCache and the one of a securityData
Scopes == {"global", "security"}

VARIABLES
    securities,   \* dataCache.securities: ticker -> securityData
    objects,      \* the optionsContractData objects ever made, by address
    supplementaryData,  \* dataCache.supplementaryData: key -> *float64
    supplementaryDataMutex,  \* per scope: the task that holds the
                  \* supplementaryDataMutex of the dataCache ("global") or
                  \* of the securityData ("security"), or "free"
    heapTop,      \* float64 variables the merge functions have made
    commits,      \* per scope: assignments to the supplementary-data map
    greeks,       \* the greeks map of one optionsContractData: key -> Greek
    pending,      \* per set operation: observer invocations scheduled and
                  \* not yet run
    treeCall,     \* the last completed call of the dataCache: operation,
                  \* argument, result, observer invocations it scheduled
    returned,     \* the map the last bulk get has handed to its caller
    pipeline,     \* "running", or "terminated" by a panic nobody recovered
    panicSeen,    \* an observer has panicked
    callbackSet,  \* the observer of the operation under exercise is
                  \* registered (its callback field is not nil)
    tPc,          \* per task inside dataCache.SetOptionsTrade: the statement
                  \* it stands before
    tArg,         \* per task: the trade of its call
    tRef,         \* per task: its local contractData (an address)
    tOld,         \* per task: its local oldValue
    tDone         \* per task: its last call that has returned

treeVars == <<securities, objects, supplementaryData,
              supplementaryDataMutex, heapTop, commits, greeks, pending,
              treeCall, returned, pipeline, panicSeen, callbackSet, tPc,
              tArg, tRef, tOld, tDone>>

\* NewOptionsContractData
NewOptionsContractData(contractId) ==
    [contract |-> contractId,
     latestTrade |-> NilEvent, latestQuote |-> NilEvent,
     latestRefresh |-> NilEvent, latestUnusualActivity |-> NilEvent,
     latestTradeCandleStick |-> NilEvent,
     latestAskQuoteCandleStick |-> NilEvent,
     latestBidQuoteCandleStick |-> NilEvent,
     supplementaryData |-> EmptyMap]

\* NewSecurityData
NewSecurityData(tickerSymbol) ==
    [tickerSymbol |-> tickerSymbol,
     latestTrade |-> NilEvent, latestAskQuote |-> NilEvent,
     latestBidQuote |-> NilEvent, latestTradeCandleStick |-> NilEvent,
     latestAskQuoteCandleStick |-> NilEvent,
     latestBidQuoteCandleStick |-> NilEvent,
     contracts |-> EmptyMap,
     supplementaryData |-> EmptyMap]

NoTreeCall ==
    [op |-> "-", arg |-> NilEvent, result |-> FALSE, scheduled |-> 0,
     afterPanic |-> FALSE]

\* no bulk get yet
NoReturned == [of |-> "none", alias |-> FALSE, m |-> EmptyMap, atCall |-> {}]

\* NewDataCache: no security, no object, nothing scheduled
TreeNew ==
    /\ securities = EmptyMap
    /\ objects = <<>>
    /\ supplementaryData = EmptyMap
    /\ supplementaryDataMutex = [scope \in Scopes |-> "free"]
    /\ heapTop = 0
    /\ commits = [scope \in Scopes |-> 0]
    /\ pending = [op \in OptionSetters \cup EquitySetters \cup SuppSetters |-> 0]
    /\ greeks = EmptyMap
    /\ treeCall = NoTreeCall
    /\ returned = NoReturned
    /\ pipeline = "running"
    /\ panicSeen = FALSE
    /\ tPc = [w \in Tasks |-> "idle"]
    /\ tArg = [w \in Tasks |-> NilEvent]
    /\ tRef = [w \in Tasks |-> 0]
    /\ tOld = [w \in Tasks |-> NilPtr]
    /\ tDone = [w \in Tasks |-> NoTreeCall]

pendingCount ==
    LET RECURSIVE sum(_)
        sum(S) == IF S = {} THEN 0
                  ELSE LET op == CHOOSE x \in S : TRUE
                       IN  pending[op] + sum(S \ {op})
    IN  sum(DOMAIN pending)

\* the set operations run while the process is alive and (a bound of the
\* model) while there is room for the invocations one call can schedule
canCall == pipeline = "running" /\ pendingCount + 2 <= MaxPending

\* the set operations that fill the three maps the bulk gets copy
BulkWriters == {"SetEquityTrade", "SetOptionsTrade", "SetSupplementaryDatum"}

\* the operation the cache is exercised with; the exercise of
\* SetOptionSupplementalDatum also delivers option trades, which make the
\* contracts
exercised(op) ==
    \/ setter = op
    \/ setter = "SetOptionSupplementalDatum" /\ op = "SetOptionsTrade"
    \/ setter = "bulk" /\ op \in BulkWriters

\* a dataCache that replaces its securities map at every insertion
onlySecurity(tickerSymbol) ==
    put(EmptyMap, tickerSymbol,
        IF tickerSymbol \in DOMAIN securities THEN securities[tickerSymbol]
        ELSE NewSecurityData(tickerSymbol))

\* the locked block of every set operation of the dataCache: the
\* securityData of the ticker, made and inserted when the map has none
withSecurity(tickerSymbol) ==
    IF tickerSymbol \in DOMAIN securities THEN securities
    ELSE put(securities, tickerSymbol, NewSecurityData(tickerSymbol))

\* the address of the contract data a set operation of securityData works
\* on: the one GetOptionsContractData finds, else a new object
contractRef(sec, contractId) ==
    IF contractId \in DOMAIN sec.contracts THEN sec.contracts[contractId]
    ELSE Len(objects) + 1

\* the heap after that lookup
withContract(sec, contractId) ==
    IF contractId \in DOMAIN sec.contracts THEN objects
    ELSE Append(objects, NewOptionsContractData(contractId))

\* the optionsContractData method a set operation of the dataCache ends in:
\* the object after the call
setOption(op, o, event) ==
    CASE op = "SetOptionsTrade" -> setSlot(o, "latestTrade", event)
      [] op = "SetOptionsQuote" -> setSlot(o, "latestQuote", event)
      [] op = "SetOptionsRefresh" -> [o EXCEPT !.latestRefresh = event]
      [] op = "SetOptionsUnusualActivity" ->
             setSlot(o, "latestUnusualActivity", event)
      [] op = "SetOptionsTradeCandleStick" ->
             setSlot(o, "latestTradeCandleStick", event)
      [] op = "SetOptionsQuoteCandleStick" ->
             setTyped(o, event, "latestAskQuoteCandleStick",
                      "latestBidQuoteCandleStick")

\* and its result
optionResult(op, o, event) ==
    CASE op = "SetOptionsTrade" -> accepts(event, o.latestTrade)
      [] op = "SetOptionsQuote" -> accepts(event, o.latestQuote)
      [] op = "SetOptionsRefresh" -> TRUE
      [] op = "SetOptionsUnusualActivity" ->
             accepts(event, o.latestUnusualActivity)
      [] op = "SetOptionsTradeCandleStick" ->
             accepts(event, o.latestTradeCandleStick)
      [] op = "SetOptionsQuoteCandleStick" ->
             calledTyped(o, event, "latestAskQuoteCandleStick",
                         "latestBidQuoteCandleStick").result

\* the securityData method a set operation of the dataCache ends in
setEquity(op, s, event) ==
    CASE op = "SetEquityTrade" -> setSlot(s, "latestTrade", event)
      [] op = "SetEquityQuote" ->
             setTyped(s, event, "latestAskQuote", "latestBidQuote")
      [] op = "SetEquityTradeCandleStick" ->
             setSlot(s, "latestTradeCandleStick", event)
      [] op = "SetEquityQuoteCandleStick" ->
             setTyped(s, event, "latestAskQuoteCandleStick",
                      "latestBidQuoteCandleStick")

equityResult(op, s, event) ==
    CASE op = "SetEquityTrade" -> accepts(event, s.latestTrade)
      [] op = "SetEquityQuote" ->
             calledTyped(s, event, "latestAskQuote", "latestBidQuote").result
      [] op = "SetEquityTradeCandleStick" ->
             accepts(event, s.latestTradeCandleStick)
      [] op = "SetEquityQuoteCandleStick" ->
             calledTyped(s, event, "latestAskQuoteCandleStick",
                         "latestBidQuoteCandleStick").result

\* "if result && callback != nil { go func() {...}() }": the number of
\* invocations one such statement schedules
goCallback(result) == IF result /\ callbackSet THEN 1 ELSE 0

\* the invocations a set operation for an option event schedules: the
\* statement in optionsContractData.Set...WithCallback, and the same
\* statement again in securityData.SetOptionsContract...WithCallback
optionScheduled(result) == goCallback(result) + goCallback(result)

\* the record of the call that has just returned
treeCalled(op, event, result, scheduled) ==
    [op |-> op, arg |-> event, result |-> result, scheduled |-> scheduled,
     afterPanic |-> panicSeen]

\* oldValue := d.supplementaryData[key]: nil when the map has no such key
get(m, key) == IF key \in DOMAIN m THEN m[key] ELSE NilPtr

\* update(key, oldValue, datum)
\* "add" is a merge function that returns the address of a new variable
\* holding the sum of the old number (zero for nil) and the new one
merge(update, key, oldValue, datum) ==
    CASE update = "takeNew" -> datum
      [] update = "keepOld" -> oldValue
      [] update = "add" ->
             [addr |-> -(heapTop + 1), val |-> oldValue.val + datum.val]

\* newValue != oldValue: a comparison of two *float64, that is of addresses
differs(newValue, oldValue) == newValue.addr # oldValue.addr

\* the body of SetSupplementaryDatum of the dataCache, of a securityData and
\* of an optionsContractData: the map after the call
setDatum(m, key, datum, update) ==
    LET oldValue == get(m, key)
        newValue == merge(update, key, oldValue, datum)
    IN  IF differs(newValue, oldValue) THEN put(m, key, newValue) ELSE m

\* and its result
datumResult(m, key, datum, update) ==
    differs(merge(update, key, get(m, key), datum), get(m, key))

\* the record of a supplementary-datum call that has just returned; merged
\* tells whether the call came to the merge
suppCalled(op, m, key, datum, update, merged) ==
    [op |-> op, arg |-> datum, key |-> key, update |-> update,
     merged |-> merged,
     before |-> get(m, key),
     newValue |-> merge(update, key, get(m, key), datum),
     result |-> merged /\ datumResult(m, key, datum, update),
     scheduled |->
         IF merged THEN goCallback(datumResult(m, key, datum, update)) ELSE 0,
     afterPanic |-> panicSeen]

\* a mutex that lets every task in
canLockAlways(mutex) == TRUE

\* s.supplementaryDataMutex.Lock() returns when no task holds the mutex
canLock(mutex) == mutex = "free"

\* the supplementary-data map of a scope
suppMap(scope) ==
    IF scope = "global" THEN supplementaryData
    ELSE securities[<<"A", "B">>].supplementaryData

\* an observer task without the deferred recover()
recoversNot == FALSE

\* the deferred function of every observer task: recover() takes the panic
recovers == TRUE
(***************************************************************************)
(* Part IV.  The wire codec of the options feed and the worker tasks that  *)
(* decode the payloads.  A string is a sequence of one-character strings.  *)
(***************************************************************************)
VARIABLES
    codec       \* a contract id on its way through the two conversions:
                \* the id, its new form, the old form made from that, and
                \* the conversions done
    , strike    \* a contract id, the accessor applied to it, and the strike
                \* it returned, in thousandths
    , batch     \* one worker and the payload it took: the array and length
                \* of the payload, the callbacks that are not nil, the
                \* position of the worker and what it decoded and delivered
    , frame     \* a control frame: the feed, the callbacks that are not
                \* nil, the symbol, and the bytes composed for it
    , delivery  \* the trades of one contract on the wire, the workers that
                \* hold one, the latest trade of the contract, the observer
                \* tasks started and the order they ran in
    , queue     \* the read queue as the read task sees it: its depth, the
                \* position of the read task, queueFull, the payloads
                \* dropped and the log
    , auth      \* the clock (hours), client.token (the serial number of the
                \* token), client.tokenUpdateTime, the position of the
                \* reconnect function and what its last attempt did
    , engine    \* the construction of a GreekClient: the bitmask, the
                \* observers of the cache before it and after it
    , bisection \* one call of calcImpliedVolatility: the classes of its
                \* inputs, low and high in units of 2^-17, the halvings
                \* done, its position and the value returned
    , fetch     \* one call of a REST fetcher of the GreekClient: the
                \* fetcher, tryCount, success, the responses its requests
                \* got, the set operations it called on the cache
    , years     \* one call of getYearsToExpiration: the clock, the
                \* expiration date, the timestamps of the latest trade and
                \* quote (minutes of Unix time), the function called and
                \* the fraction it returned

wireVars == <<codec, strike, batch, frame, delivery, queue, auth, engine,
              bisection, fetch, years>>

\* the index (from 0) of the first c in s, -1 when s has none:
\* strings.IndexByte(s, c)
IndexByte(s, c) ==
    IF \E i \in 1 .. Len(s) : s[i] = c
    THEN least({i \in 1 .. Len(s) : s[i] = c}) - 1
    ELSE -1

\* strings.TrimLeft(s, "0")
RECURSIVE TrimLeft(_)
TrimLeft(s) ==
    IF s # <<>> /\ s[1] = "0" THEN TrimLeft(SubSeq(s, 2, Len(s))) ELSE s

\* convertOldContractIdToNew: SYMBOL_yymmddXwhole.part, the whole part
\* without leading zeros and the fractional part without its third digit
\* when that is '0'
convertOldContractIdToNew(oldContractId) ==
    IF Len(oldContractId) < 13 \/ IndexByte(oldContractId, ".") > 9
    THEN oldContractId
    ELSE LET symbol == TrimRight(SubSeq(oldContractId, 1, 6))
             exp == SubSeq(oldContractId, 7, 12)
             pc == oldContractId[13]
             trimmed == TrimLeft(SubSeq(oldContractId, 14, 18))
             whole == IF trimmed = <<>> THEN <<"0">> ELSE trimmed
             rest == SubSeq(oldContractId, 19, Len(oldContractId))
             part == IF rest[3] = "0" THEN SubSeq(rest, 1, 2) ELSE rest
         IN  symbol \o <<"_">> \o exp \o <<pc>> \o whole \o <<".">> \o part

\* the array extractOldContractId starts from
oldContractBytes ==
    <<"_", "_", "_", "_", "_", "_", "0", "0", "0", "0", "0", "0", "X",
      "0", "0", "0", "0", "0", "0", "0", "0">>

\* extractOldContractId for bytes that hold a '_' and, before their last
\* byte, a '.': the symbol up to the '_'; the seven bytes after it; the
\* digits between them and the '.', right-aligned at byte 17; the bytes after
\* the '.' except the last one ("i < len(newContractBytes)-1"), from byte 18
extractOldContractId(newContractBytes) ==
    LET n == Len(newContractBytes)
        underscore == IndexByte(newContractBytes, "_") + 1
        indexOfPC == underscore + 7
        indexOfDecimal ==
            CHOOSE i \in 1 .. (n - 1) :
                /\ newContractBytes[i] = "."
                /\ \A k \in (i + 1) .. (n - 1) : newContractBytes[k] # "."
        wholeLen == indexOfDecimal - 1 - indexOfPC
        partLen == n - 1 - indexOfDecimal
    IN  [j \in 1 .. 21 |->
            IF j < underscore THEN newContractBytes[j]
            ELSE IF j \in 7 .. 13 THEN newContractBytes[underscore + j - 6]
            ELSE IF j \in (19 - wholeLen) .. 18
                 THEN newContractBytes[indexOfDecimal - 1 - (18 - j)]
            ELSE IF j \in 19 .. (18 + partLen)
                 THEN newContractBytes[indexOfDecimal + (j - 18)]
            ELSE oldContractBytes[j]]

\* the 21-byte contract id of symbol, expiration, put or call, and strike
OldContractId(symbol, exp, pc, whole, part) ==
    Pad(symbol) \o exp \o <<pc>> \o whole \o part

NoCodec == [id |-> <<>>, new |-> <<>>, old |-> <<>>, done |-> 0]

\* the number a digit stands for: c - '0'
Digit(c) ==
    CASE c = "0" -> 0 [] c = "1" -> 1 [] c = "2" -> 2 [] c = "3" -> 3
      [] c = "4" -> 4 [] c = "5" -> 5 [] c = "6" -> 6 [] c = "7" -> 7
      [] c = "8" -> 8 [] c = "9" -> 9

\* uint16 arithmetic
Uint16(n) == n % 65536

\* OptionTrade.GetStrikePrice: the whole part in uint32, three fractional
\* digits
tradeStrike(id) ==
    (Digit(id[14]) * 10000 + Digit(id[15]) * 1000 + Digit(id[16]) * 100
        + Digit(id[17]) * 10 + Digit(id[18])) * 1000
    + Digit(id[19]) * 100 + Digit(id[20]) * 10 + Digit(id[21])

\* OptionQuote.GetStrikePrice, OptionRefresh.GetStrikePrice,
\* OptionUnusualActivity.GetStrikePrice: the whole part in uint16, every
\* product and every sum reduced modulo 65536
quoteStrike(id) ==
    Uint16(Uint16(Uint16(Uint16(Uint16(Digit(id[14]) * 10000)
                                + Uint16(Digit(id[15]) * 1000))
                         + Uint16(Digit(id[16]) * 100))
                  + Uint16(Digit(id[17]) * 10))
           + Digit(id[18])) * 1000
    + Digit(id[19]) * 100 + Digit(id[20]) * 10 + Digit(id[21])

\* BlackScholesGreekCalculator.getStrikePrice: strikeStr := contract[13:19],
\* five digits of the whole part and strikeStr[5] * 0.1
getStrikePrice(id) ==
    IF Len(id) < 19 THEN 0
    ELSE (Digit(id[14]) * 10000 + Digit(id[15]) * 1000 + Digit(id[16]) * 100
             + Digit(id[17]) * 10 + Digit(id[18])) * 1000
         + Digit(id[19]) * 100

\* the strike accessors
Accessors ==
    {"OptionTrade", "OptionQuote", "OptionRefresh", "OptionUnusualActivity",
     "BlackScholesGreekCalculator"}

GetStrikePrice(of, id) ==
    CASE of = "OptionTrade" -> tradeStrike(id)
      [] of = "BlackScholesGreekCalculator" -> getStrikePrice(id)
      [] OTHER -> quoteStrike(id)

NoStrike == [id |-> <<>>, of |-> "-", value |-> 0]

\* an accessor is applied to the id
readStrike(of) ==
    /\ setter = "strike"
    /\ strike' = [strike EXCEPT !.of = of,
                                !.value = GetStrikePrice(of, strike.id)]
    /\ UNCHANGED sessVars
    /\ UNCHANGED cacheVars
    /\ UNCHANGED treeVars
    /\ UNCHANGED <<codec, batch, frame, delivery, queue, auth, engine,
                   bisection, fetch, years>>

\* the id is converted to its new form
toNewFormat ==
    /\ setter = "codec"
    /\ codec.done = 0
    /\ codec' = [codec EXCEPT !.new = convertOldContractIdToNew(codec.id),
                              !.done = 1]
    /\ UNCHANGED sessVars
    /\ UNCHANGED cacheVars
    /\ UNCHANGED treeVars
    /\ UNCHANGED <<strike, batch, frame, delivery, queue, auth, engine,
                   bisection, fetch, years>>

\* the new form is converted back
toOldFormat ==
    /\ setter = "codec"
    /\ codec.done = 1
    /\ codec' = [codec EXCEPT !.old = extractOldContractId(codec.new),
                              !.done = 2]
    /\ UNCHANGED sessVars
    /\ UNCHANGED cacheVars
    /\ UNCHANGED treeVars
    /\ UNCHANGED <<strike, batch, frame, delivery, queue, auth, engine,
                   bisection, fetch, years>>

(***************************************************************************)
(* The workers: workOnEquities and workOnOptions take one payload from the *)
(* read queue and walk its records.  Bytes are numbers; a slice is a       *)
(* window arr[lo:hi] of an array whose length is the capacity.  An index   *)
(* beyond the length and a slice beyond the capacity panic, and no worker  *)
(* recovers from a panic.                                                  *)
(***************************************************************************)
\* uint8 arithmetic
Uint8(n) == n % 256

\* the greatest element of a non-empty set of numbers
greatest(S) == CHOOSE i \in S : \A j \in S : j <= i

\* len(b), cap(b)
len(b) == b.hi - b.lo
cap(b) == Len(b.arr) - b.lo

\* b[k] is within the length
inRange(b, k) == k >= 0 /\ k < len(b)

\* b[k]
byteAt(b, k) == b.arr[b.lo + k + 1]

\* b[from:to] is within the capacity
sliceable(b, from, to) == from >= 0 /\ from <= to /\ to <= cap(b)

\* b[from:to]
slice(b, from, to) == [arr |-> b.arr, lo |-> b.lo + from, hi |-> b.lo + to]

\* extractOldContractId returns (does not panic): a '_' is found within the
\* bytes and within the 21 bytes of the target, seven bytes follow it, a '.'
\* is found at or before the last byte but one, and the digits around the
\* '.' fit the target
extractOldContractIdReturns(newContractBytes) ==
    LET n == len(newContractBytes)
        underscores == {i \in 0 .. (n - 1) : byteAt(newContractBytes, i) = 95}
        decimals == {i \in 0 .. (n - 2) : byteAt(newContractBytes, i) = 46}
    IN  /\ underscores # {}
        /\ least(underscores) <= 21
        /\ least(underscores) + 7 < n
        /\ decimals # {}
        /\ LET indexOfPC == least(underscores) + 7
               indexOfDecimal == greatest(decimals)
           IN  /\ indexOfDecimal - 1 - indexOfPC <= 18
               /\ n - 2 - indexOfDecimal <= 3

\* the offsets of the price-type bytes each option parser looks up in
\* priceTypeDivisorTable
priceTypeAt(kind) ==
    CASE kind = "trade" -> {23, 24}
      [] kind = "quote" -> {23}
      [] kind = "refresh" -> {23}
      [] kind = "ua" -> {24, 25}

\* parseOptionTrade, parseOptionQuote, parseOptionRefresh, parseOptionUA
\* return: bytes[1:(1 + bytes[0])] in uint8, extractOldContractId, and
\* priceTypeDivisorTable[priceType], a table of 16 entries
parseOptionReturns(kind, bytes) ==
    /\ inRange(bytes, 0)
    /\ sliceable(bytes, 1, Uint8(1 + byteAt(bytes, 0)))
    /\ extractOldContractIdReturns(
           slice(bytes, 1, Uint8(1 + byteAt(bytes, 0))))
    /\ \A k \in priceTypeAt(kind) : inRange(bytes, k) /\ byteAt(bytes, k) < 16

\* the accesses parseEquityQuote and parseEquityTrade share; symbolLen and
\* conditionsLen are uint8 and so are the sums they enter
equityFieldsReturn(bytes, conditionsAt) ==
    /\ inRange(bytes, 2)
    /\ LET symbolLen == byteAt(bytes, 2)
       IN  /\ sliceable(bytes, 3, Uint8(3 + symbolLen))
           /\ inRange(bytes, Uint8(3 + symbolLen))
           /\ sliceable(bytes, Uint8(4 + symbolLen), Uint8(6 + symbolLen))
           /\ sliceable(bytes, Uint8(6 + symbolLen), Uint8(10 + symbolLen))
           /\ sliceable(bytes, Uint8(10 + symbolLen), Uint8(14 + symbolLen))
           /\ sliceable(bytes, Uint8(14 + symbolLen), Uint8(22 + symbolLen))
           /\ conditionsAt = 26 =>
                  sliceable(bytes, Uint8(22 + symbolLen),
                            Uint8(26 + symbolLen))
           /\ inRange(bytes, Uint8(conditionsAt + symbolLen))
           /\ LET conditionsLen == byteAt(bytes, Uint8(conditionsAt + symbolLen))
              IN  conditionsLen > 0 =>
                      sliceable(bytes, Uint8(conditionsAt + 1 + symbolLen),
                                Uint8(conditionsAt + 1 + symbolLen
                                      + conditionsLen))

parseEquityQuoteReturns(bytes) == equityFieldsReturn(bytes, 22)

parseEquityTradeReturns(bytes) == equityFieldsReturn(bytes, 26)

MAX_OPTION_SYMBOL_SIZE == 21

\* OPTION_TRADE_MSG_SIZE, OPTION_QUOTE_MSG_SIZE, OPTION_REFRESH_MSG_SIZE,
\* OPTION_UA_MSG_SIZE
optionMsgSize(kind) ==
    CASE kind = "trade" -> 72
      [] kind = "quote" -> 52
      [] kind = "refresh" -> 52
      [] kind = "ua" -> 74

\* the branch workOnOptions takes for a message type
optionKind(msgType) ==
    CASE msgType = 1 -> "quote"
      [] msgType = 0 -> "trade"
      [] msgType > 2 -> "ua"
      [] msgType = 2 -> "refresh"

\* the branch workOnEquities takes for a message type
equityKind(msgType) ==
    CASE msgType = 1 \/ msgType = 2 -> "quote"
      [] msgType = 0 -> "trade"
      [] OTHER -> "invalid"

NoBatch ==
    [feed |-> "-", arr |-> <<>>, n |-> 0, on |-> {}, pc |-> "idle",
     count |-> 0, startIndex |-> 0, i |-> 0, decoded |-> <<>>,
     delivered |-> <<>>, invalid |-> 0, frozen |-> 0]

\* the payload taken from the read queue
data == [arr |-> batch.arr, lo |-> 0, hi |-> batch.n]

\* an unrecovered panic ends the process, this worker and the others
panic == [batch EXCEPT !.pc = "panic"]

\* a walk that steps over a record of an invalid type by its length byte
afterInvalidSkipped(startIndex) ==
    IF inRange(data, startIndex + 1)
    THEN startIndex + byteAt(data, startIndex + 1)
    ELSE startIndex

\* where the walk stands after a record of an invalid type: the offset is
\* left as it is
afterInvalid(startIndex) == startIndex

\* the record at startIndex has been parsed: the offset moves to endIndex
\* and the callback is called if it is not nil
parsed(kind, endIndex) ==
    [batch EXCEPT !.startIndex = endIndex,
                  !.i = @ + 1,
                  !.decoded = Append(@, <<batch.startIndex, kind>>),
                  !.delivered = IF kind \in batch.on
                                THEN Append(@, <<batch.startIndex, kind>>)
                                ELSE @]

\* one iteration of the loop of workOnEquities
equitiesIteration ==
    LET startIndex == batch.startIndex
    IN  IF ~inRange(data, startIndex) THEN panic
        ELSE LET kind == equityKind(byteAt(data, startIndex))
             IN  IF kind = "invalid"
                 THEN [batch EXCEPT !.i = @ + 1,
                                    !.startIndex = afterInvalid(@),
                                    !.invalid = @ + 1,
                                    !.frozen = IF batch.invalid = 0
                                               THEN Len(batch.delivered)
                                               ELSE @]
                 ELSE IF ~inRange(data, startIndex + 1) THEN panic
                 ELSE LET endIndex ==
                              startIndex + byteAt(data, startIndex + 1)
                      IN  IF ~sliceable(data, startIndex, endIndex)
                          THEN panic
                          ELSE IF kind = "quote"
                                  /\ ~parseEquityQuoteReturns(
                                          slice(data, startIndex, endIndex))
                          THEN panic
                          ELSE IF kind = "trade"
                                  /\ ~parseEquityTradeReturns(
                                          slice(data, startIndex, endIndex))
                          THEN panic
                          ELSE parsed(kind, endIndex)

\* one iteration of the loop of workOnOptions
optionsIteration ==
    LET startIndex == batch.startIndex
    IN  IF ~inRange(data, startIndex + 1 + MAX_OPTION_SYMBOL_SIZE) THEN panic
        ELSE LET kind == optionKind(byteAt(data, startIndex + 1
                                               + MAX_OPTION_SYMBOL_SIZE))
                 endIndex == startIndex + optionMsgSize(kind)
             IN  IF ~sliceable(data, startIndex, endIndex) THEN panic
                 ELSE IF ~parseOptionReturns(
                              kind, slice(data, startIndex, endIndex))
                 THEN panic
                 ELSE parsed(kind, endIndex)

\* case data := <-readChannel: count := data[0]; startIndex := 1
workReceive ==
    /\ setter = "batch"
    /\ batch.pc = "idle"
    /\ batch' = IF inRange(data, 0)
                THEN [batch EXCEPT !.pc = "loop",
                                   !.count = byteAt(data, 0),
                                   !.startIndex = 1,
                                   !.i = 0]
                ELSE panic
    /\ UNCHANGED sessVars
    /\ UNCHANGED cacheVars
    /\ UNCHANGED treeVars
    /\ UNCHANGED <<codec, strike, frame, delivery, queue, auth, engine,
                   bisection, fetch, years>>

\* workOnEquities: for i := 0; i < int(count); i++
workOnEquities ==
    /\ setter = "batch"
    /\ batch.feed = "equities"
    /\ batch.pc = "loop"
    /\ batch.i < batch.count
    /\ batch' = equitiesIteration
    /\ UNCHANGED sessVars
    /\ UNCHANGED cacheVars
    /\ UNCHANGED treeVars
    /\ UNCHANGED <<codec, strike, frame, delivery, queue, auth, engine,
                   bisection, fetch, years>>

\* workOnOptions: for i := 0; i < int(count); i++
workOnOptions ==
    /\ setter = "batch"
    /\ batch.feed = "options"
    /\ batch.pc = "loop"
    /\ batch.i < batch.count
    /\ batch' = optionsIteration
    /\ UNCHANGED sessVars
    /\ UNCHANGED cacheVars
    /\ UNCHANGED treeVars
    /\ UNCHANGED <<codec, strike, frame, delivery, queue, auth, engine,
                   bisection, fetch, years>>

\* the loop is over: the worker goes back to the read queue
workReturn ==
    /\ setter = "batch"
    /\ batch.pc = "loop"
    /\ batch.i >= batch.count
    /\ batch' = [batch EXCEPT !.pc = "done"]
    /\ UNCHANGED sessVars
    /\ UNCHANGED cacheVars
    /\ UNCHANGED treeVars
    /\ UNCHANGED <<codec, strike, frame, delivery, queue, auth, engine,
                   bisection, fetch, years>>

(***************************************************************************)
(* The control frames.  A frame is kept as the bytes appended first (the   *)
(* head, numbers) and the bytes of the channel appended after them.        *)
(***************************************************************************)
\* mask | bit, for a bit that is a power of two
bitOr(mask, bit) == IF (mask \div bit) % 2 = 1 THEN mask ELSE mask + bit

\* composeOptionJoinMsg
composeOptionJoinMsg(useTrade, useQuote, useRefresh, useUA, symbol) ==
    LET newSymbol == convertOldContractIdToNew(symbol)
        m1 == IF useTrade THEN bitOr(0, 1) ELSE 0
        m2 == IF useQuote THEN bitOr(m1, 2) ELSE m1
        m3 == IF useRefresh THEN bitOr(m2, 4) ELSE m2
        mask == IF useUA THEN bitOr(m3, 8) ELSE m3
    IN  [head |-> <<74, mask>>, channel |-> newSymbol]

\* composeOptionLeaveMsg
composeOptionLeaveMsg(symbol) ==
    [head |-> <<76, 0>>, channel |-> convertOldContractIdToNew(symbol)]

\* composeEquityJoinMsg
composeEquityJoinMsg(useTrade, useQuote, symbol) ==
    LET tradesOnly == IF ~useQuote THEN 1 ELSE 0
    IN  [head |-> <<74, tradesOnly>>, channel |-> symbol]

\* composeEquityLeaveMsg
composeEquityLeaveMsg(symbol) == [head |-> <<76>>, channel |-> symbol]

\* client.composeJoinMsg and client.composeLeaveMsg of NewOptionsClient and
\* NewEquitiesClient
composed(feed, on, op, symbol) ==
    CASE feed = "options" /\ op = "join" ->
             composeOptionJoinMsg("trade" \in on, "quote" \in on,
                                  "refresh" \in on, "ua" \in on, symbol)
      [] feed = "options" /\ op = "leave" -> composeOptionLeaveMsg(symbol)
      [] feed = "equities" /\ op = "join" ->
             composeEquityJoinMsg("trade" \in on, "quote" \in on, symbol)
      [] feed = "equities" /\ op = "leave" -> composeEquityLeaveMsg(symbol)

NoFrame ==
    [feed |-> "-", on |-> {}, symbol |-> <<>>, op |-> "-", head |-> <<>>,
     channel |-> <<>>]

\* a join or a leave frame is composed for the symbol
compose(op) ==
    /\ setter = "frames"
    /\ frame.op = "-"
    /\ frame' = [frame EXCEPT
                    !.op = op,
                    !.head = composed(frame.feed, frame.on, op,
                                      frame.symbol).head,
                    !.channel = composed(frame.feed, frame.on, op,
                                         frame.symbol).channel]
    /\ UNCHANGED sessVars
    /\ UNCHANGED cacheVars
    /\ UNCHANGED treeVars
    /\ UNCHANGED <<codec, strike, batch, delivery, queue, auth, engine,
                   bisection, fetch, years>>

(***************************************************************************)
(* The trades of one contract from the read queue to the observer: the     *)
(* workers started by Client.Start take payloads in queue order, each      *)
(* calls SetTradeWithCallback, which starts one task per accepted trade.   *)
(* A trade is known by its position on the wire.                           *)
(***************************************************************************)
NoDelivery ==
    [wire |-> <<>>, pool |-> {}, next |-> 1, hold |-> [w \in Workers |-> 0],
     latestTrade |-> NilEvent, passed |-> {}, started |-> {},
     invoked |-> <<>>, pc |-> [w \in Workers |-> "idle"], read |-> EmptyMap]

\* the trade at a position of the wire
tradeAt(position) ==
    [nil |-> FALSE, ts |-> delivery.wire[position], type |-> "-"]

\* case data := <-readChannel: a worker takes the next payload
workerTakes(w) ==
    /\ setter \in {"delivery", "recompute"}
    /\ delivery.pc[w] = "idle"
    /\ w \in delivery.pool
    /\ delivery.hold[w] = 0
    /\ delivery.next <= Len(delivery.wire)
    /\ delivery' = [delivery EXCEPT !.hold[w] = delivery.next,
                                    !.next = @ + 1]
    /\ UNCHANGED sessVars
    /\ UNCHANGED cacheVars
    /\ UNCHANGED treeVars
    /\ UNCHANGED <<codec, strike, batch, frame, queue, auth, engine,
                   bisection, fetch, years>>

\* SetTradeWithCallback: result := o.SetTrade(trade); if result && callback
\* != nil { go func() { ... callback(o, dataCache, securityData) }() }
SetTradeWithCallback(w) ==
    /\ setter = "delivery"
    /\ delivery.hold[w] # 0
    /\ LET position == delivery.hold[w]
           result == accepts(tradeAt(position), delivery.latestTrade)
       IN  delivery' =
               [delivery EXCEPT
                   !.hold[w] = 0,
                   !.latestTrade = IF result THEN tradeAt(position) ELSE @,
                   !.passed = IF result THEN @ \cup {position} ELSE @,
                   !.started = IF result THEN @ \cup {position} ELSE @]
    /\ UNCHANGED sessVars
    /\ UNCHANGED cacheVars
    /\ UNCHANGED treeVars
    /\ UNCHANGED <<codec, strike, batch, frame, queue, auth, engine,
                   bisection, fetch, years>>

\* one of the started tasks is scheduled and calls the observer
observerTask(position) ==
    /\ setter = "delivery"
    /\ position \in delivery.started
    /\ delivery' = [delivery EXCEPT !.started = @ \ {position},
                                    !.invoked = Append(@, position)]
    /\ UNCHANGED sessVars
    /\ UNCHANGED cacheVars
    /\ UNCHANGED treeVars
    /\ UNCHANGED <<codec, strike, batch, frame, queue, auth, engine,
                   bisection, fetch, years>>

(***************************************************************************)
(* The read task and the read queue: the BinaryMessage branch of           *)
(* Client.read, step by step, next to workers that take payloads.          *)
(***************************************************************************)
\* cap(client.readChannel) in the model
QueueCap == 10

\* entries of the log kept
MaxLog == 4

\* a mark above every depth: 'draining' at the first payload queued
highWatermarkNone == QueueCap + 1

\* var highWatermark int = cap(client.readChannel) * 9 / 10
highWatermark == (QueueCap * 9) \div 10

NoQueue ==
    [depth |-> 0, pc |-> "off", queueFull |-> FALSE, dropped |-> 0,
     dropDepth |-> 0, log |-> <<>>]

\* log.Println
logged(entry) == Append(queue.log, [entry |-> entry, depth |-> queue.depth])

\* select { case client.readChannel <- data: ... default: ... }: the payload
\* is queued if the queue has room; otherwise it is dropped, and 'full' is
\* logged if queueFull was not set
readSelect ==
    /\ setter = "queue"
    /\ queue.pc = "read"
    /\ Len(queue.log) < MaxLog
    /\ queue' = IF queue.depth < QueueCap
                THEN [queue EXCEPT !.depth = @ + 1, !.pc = "queued"]
                ELSE [queue EXCEPT
                         !.dropped = 1,
                         !.dropDepth = queue.depth,
                         !.queueFull = TRUE,
                         !.log = IF queue.queueFull THEN @
                                 ELSE logged("read channel full")]
    /\ UNCHANGED sessVars
    /\ UNCHANGED cacheVars
    /\ UNCHANGED treeVars
    /\ UNCHANGED <<codec, strike, batch, frame, delivery, auth, engine,
                   bisection, fetch, years>>

\* if queueFull && len(client.readChannel) < highWatermark
readTest ==
    /\ setter = "queue"
    /\ queue.pc = "queued"
    /\ queue' = IF queue.queueFull /\ queue.depth < highWatermark
                THEN [queue EXCEPT !.queueFull = FALSE, !.pc = "draining"]
                ELSE [queue EXCEPT !.pc = "read"]
    /\ UNCHANGED sessVars
    /\ UNCHANGED cacheVars
    /\ UNCHANGED treeVars
    /\ UNCHANGED <<codec, strike, batch, frame, delivery, auth, engine,
                   bisection, fetch, years>>

\* log.Println("Client - read channel draining")
readLog ==
    /\ setter = "queue"
    /\ queue.pc = "draining"
    /\ queue' = [queue EXCEPT !.log = logged("read channel draining"),
                              !.pc = "read"]
    /\ UNCHANGED sessVars
    /\ UNCHANGED cacheVars
    /\ UNCHANGED treeVars
    /\ UNCHANGED <<codec, strike, batch, frame, delivery, auth, engine,
                   bisection, fetch, years>>

\* case data := <-readChannel in a worker
workerReceives ==
    /\ setter = "queue"
    /\ queue.depth > 0
    /\ queue' = [queue EXCEPT !.depth = @ - 1]
    /\ UNCHANGED sessVars
    /\ UNCHANGED cacheVars
    /\ UNCHANGED treeVars
    /\ UNCHANGED <<codec, strike, batch, frame, delivery, auth, engine,
                   bisection, fetch, years>>

\* the steps of the read task
readStep == readSelect \/ readTest \/ readLog

(***************************************************************************)
(* The token: getToken, the function reconnect hands to doBackoff, and     *)
(* trySetToken, with a clock in hours.                                     *)
(***************************************************************************)
\* 24 * time.Hour, in hours
Day == 24

\* the last hour of the clock
MaxNow == 72

\* a test that still takes a token of exactly 24 hours for fresh
freshAtDay(now, tokenUpdateTime) == now - tokenUpdateTime <= Day

\* time.Since(client.tokenUpdateTime) < (24 * time.Hour)
fresh(now, tokenUpdateTime) == now - tokenUpdateTime < Day

\* what trySetToken can meet: a response 200 with a body, a response 200
\* with an empty body, an error of httpClient.Do, another status, an error
\* of io.ReadAll
Responses == {"ok", "emptyBody", "httpDoErr", "status", "readErr"}

\* the responses trySetToken returns true for: it tests the errors and the
\* status, not the body
succeeds(response) == response \in {"ok", "emptyBody"}

\* the zero time.Time of a new Client: a day before the clock starts, as
\* far as the test of the age goes
zeroTime == 0 - Day

\* a token is the serial number of the response that brought it; the empty
\* token "" is 0
NoAttempt ==
    [by |-> "-", age |-> 0, token |-> 0, tokenUpdateTime |-> 0,
     requested |-> FALSE, response |-> "-", dialled |-> -1]

NoAuth ==
    [now |-> 0, token |-> 0, tokenUpdateTime |-> 0, issued |-> 0,
     pc |-> "off", attempt |-> NoAttempt]

\* client.token = string(body); client.tokenUpdateTime = time.Now()
tokenSet(response) ==
    [auth EXCEPT !.token = IF response = "ok" THEN auth.issued + 1 ELSE 0,
                 !.issued = IF response = "ok" THEN @ + 1 ELSE @,
                 !.tokenUpdateTime = auth.now,
                 !.pc = "dial",
                 !.attempt.requested = TRUE,
                 !.attempt.response = response]

\* half a day passes
clock ==
    /\ setter = "auth"
    /\ auth.now + Day \div 2 <= MaxNow
    /\ auth' = [auth EXCEPT !.now = @ + Day \div 2]
    /\ UNCHANGED sessVars
    /\ UNCHANGED cacheVars
    /\ UNCHANGED treeVars
    /\ UNCHANGED <<codec, strike, batch, frame, delivery, queue, engine,
                   bisection, fetch, years>>

\* the function of reconnect begins: with a fresh token it goes to
\* tryResetWebSocket, otherwise to trySetToken
reconnectAttempt ==
    /\ setter = "auth"
    /\ auth.pc = "idle"
    /\ LET began == [NoAttempt EXCEPT
                        !.by = "reconnect",
                        !.age = auth.now - auth.tokenUpdateTime,
                        !.token = auth.token,
                        !.tokenUpdateTime = auth.tokenUpdateTime]
       IN  auth' = IF fresh(auth.now, auth.tokenUpdateTime)
                   THEN [auth EXCEPT !.pc = "dial", !.attempt = began]
                   ELSE [auth EXCEPT !.pc = "auth", !.attempt = began]
    /\ UNCHANGED sessVars
    /\ UNCHANGED cacheVars
    /\ UNCHANGED treeVars
    /\ UNCHANGED <<codec, strike, batch, frame, delivery, queue, engine,
                   bisection, fetch, years>>

\* trySetToken: the request is made; a response 200 whose body was read
\* sets client.token and client.tokenUpdateTime; any failure makes the
\* function of reconnect return false
reconnectAuth(response) ==
    /\ setter = "auth"
    /\ auth.pc = "auth"
    /\ auth' = IF succeeds(response)
               THEN tokenSet(response)
               ELSE [auth EXCEPT !.pc = "idle",
                                 !.attempt.requested = TRUE,
                                 !.attempt.response = response]
    /\ UNCHANGED sessVars
    /\ UNCHANGED cacheVars
    /\ UNCHANGED treeVars
    /\ UNCHANGED <<codec, strike, batch, frame, delivery, queue, engine,
                   bisection, fetch, years>>

\* getToken in Start: the token of a new Client is not fresh, so
\* doBackoff(client.trySetToken, ...) calls trySetToken until it returns
\* true; Start then dials with client.token
getToken(response) ==
    /\ setter = "auth"
    /\ auth.pc = "start"
    /\ ~fresh(auth.now, auth.tokenUpdateTime)
    /\ auth' = IF succeeds(response)
               THEN tokenSet(response)
               ELSE [auth EXCEPT !.attempt.requested = TRUE,
                                 !.attempt.response = response]
    /\ UNCHANGED sessVars
    /\ UNCHANGED cacheVars
    /\ UNCHANGED treeVars
    /\ UNCHANGED <<codec, strike, batch, frame, delivery, queue, engine,
                   bisection, fetch, years>>

\* tryResetWebSocket dials with client.token
reconnectDial ==
    /\ setter = "auth"
    /\ auth.pc = "dial"
    /\ auth' = [auth EXCEPT !.pc = "idle", !.attempt.dialled = auth.token]
    /\ UNCHANGED sessVars
    /\ UNCHANGED cacheVars
    /\ UNCHANGED treeVars
    /\ UNCHANGED <<codec, strike, batch, frame, delivery, queue, engine,
                   bisection, fetch, years>>

(***************************************************************************)
(* The construction of the Greek engine: NewGreekClient registers its      *)
(* handlers as observers of the cache according to the update frequency.   *)
(***************************************************************************)
\* the flags of GreekUpdateFrequency, 1 << iota in the order of declaration
flagOf(name) ==
    CASE name = "EveryOptionsTradeUpdate" -> 1
      [] name = "EveryOptionsQuoteUpdate" -> 2
      [] name = "EveryRiskFreeInterestRateUpdate" -> 4
      [] name = "EveryDividendYieldUpdate" -> 8
      [] name = "EveryEquityTradeUpdate" -> 16
      [] name = "EveryEquityQuoteUpdate" -> 32

\* the observer slots of the dataCache that NewGreekClient may set, the flag
\* that decides each and the handler it is given
Registrations ==
    {[slot |-> "optionsTradeUpdatedCallback",
      flag |-> "EveryOptionsTradeUpdate",
      handler |-> "updateGreeksForOptionsContractTrade"],
     [slot |-> "optionsQuoteUpdatedCallback",
      flag |-> "EveryOptionsQuoteUpdate",
      handler |-> "updateGreeksForOptionsContractQuote"],
     [slot |-> "securitySupplementalDatumUpdatedCallback",
      flag |-> "EveryDividendYieldUpdate",
      handler |-> "updateGreeksSecuritySupplementalDatumUpdated"],
     [slot |-> "supplementalDatumUpdatedCallback",
      flag |-> "EveryRiskFreeInterestRateUpdate",
      handler |-> "updateGreeks"],
     [slot |-> "equitiesTradeUpdatedCallback",
      flag |-> "EveryEquityTradeUpdate",
      handler |-> "updateGreeksForSecurityTrade"],
     [slot |-> "equitiesQuoteUpdatedCallback",
      flag |-> "EveryEquityQuoteUpdate",
      handler |-> "updateGreeksForSecurityQuote"]}

ObserverSlots == {r.slot : r \in Registrations}

registrationOf(slot) == CHOOSE r \in Registrations : r.slot = slot

\* a test that finds every flag in every frequency
HasAll(f, flag) == TRUE

\* GreekUpdateFrequency.Has: f&flag != 0, for a flag of one bit
Has(f, flag) == (f \div flag) % 2 = 1

NoEngine ==
    [frequency |-> 0, before |-> [slot \in ObserverSlots |-> "nil"],
     callbacks |-> [slot \in ObserverSlots |-> "nil"], built |-> FALSE,
     securities |-> EmptyMap, event |-> [kind |-> "-", on |-> <<>>],
     ran |-> {}]

\* NewGreekClient: cache.Set...UpdatedCallback(client.handler) for every
\* flag the frequency has
NewGreekClient ==
    /\ setter = "engine"
    /\ ~engine.built
    /\ engine' =
           [engine EXCEPT
               !.built = TRUE,
               !.callbacks =
                   [slot \in ObserverSlots |->
                       IF Has(engine.frequency,
                              flagOf(registrationOf(slot).flag))
                       THEN registrationOf(slot).handler
                       ELSE engine.callbacks[slot]]]
    /\ UNCHANGED sessVars
    /\ UNCHANGED cacheVars
    /\ UNCHANGED treeVars
    /\ UNCHANGED <<codec, strike, batch, frame, delivery, queue, auth,
                   bisection, fetch, years>>

(***************************************************************************)
(* The routing of the Greek engine: a set operation of the cache that has  *)
(* accepted an event calls the handler registered for it, and the handler  *)
(* runs every calculator of calcLookup on the contracts it selects.        *)
(* engine.securities is the securities map of the cache, each security     *)
(* with the keys of its contracts map; engine.ran is the set of contracts  *)
(* the calculators ran on for engine.event.                                *)
(***************************************************************************)
\* NewGreekClient: riskFreeInterestRateKey, dividendYieldKey
riskFreeInterestRateKey == "RiskFreeInterestRate"

dividendYieldKey == "DividendYield"

\* securityData, exists := d.securities[tickerSymbol]; if !exists {
\* d.securities[tickerSymbol] = NewSecurityData(tickerSymbol) }
securityOf(secs, tickerSymbol) ==
    IF tickerSymbol \in DOMAIN secs THEN secs ELSE put(secs, tickerSymbol, {})

\* updateGreeksForSecurity: updateGreeksForOptionsContract for every contract
\* of securityData.GetAllOptionsContractData()
updateGreeksForSecurity(secs, tickerSymbol) == secs[tickerSymbol]

\* what the handlers leave in the engine
routed(secs, kind, on, ran) ==
    [engine EXCEPT !.securities = secs,
                   !.event = [kind |-> kind, on |-> on],
                   !.ran = ran]

\* dataCache.SetOptionsTrade or SetOptionsQuote of an accepted event, and
\* the handler it calls with the optionsContractData of the event
routeOptions(kind, contractId) ==
    LET tickerSymbol == extractTickerFromContract(contractId) IN
    IF tickerSymbol = <<>>
    THEN routed(engine.securities, kind, contractId, {})
    ELSE LET secs == securityOf(engine.securities, tickerSymbol) IN
         routed(put(secs, tickerSymbol, secs[tickerSymbol] \cup {contractId}),
                kind, contractId, {contractId})

\* dataCache.SetEquityTrade, SetEquityQuote or SetSecuritySupplementalDatum
\* of an accepted event, and the handler it calls with the securityData
routeSecurity(kind, tickerSymbol) ==
    LET secs == securityOf(engine.securities, tickerSymbol) IN
    routed(secs, kind, tickerSymbol,
           updateGreeksForSecurity(secs, tickerSymbol))

\* GreekClient.updateGreeksForOptionsContractTrade
updateGreeksForOptionsContractTrade(contractId) ==
    /\ setter = "routing"
    /\ engine' = routeOptions("optionsTrade", contractId)
    /\ UNCHANGED sessVars
    /\ UNCHANGED cacheVars
    /\ UNCHANGED treeVars
    /\ UNCHANGED <<codec, strike, batch, frame, delivery, queue, auth,
                   bisection, fetch, years>>

\* GreekClient.updateGreeksForOptionsContractQuote
updateGreeksForOptionsContractQuote(contractId) ==
    /\ setter = "routing"
    /\ engine' = routeOptions("optionsQuote", contractId)
    /\ UNCHANGED sessVars
    /\ UNCHANGED cacheVars
    /\ UNCHANGED treeVars
    /\ UNCHANGED <<codec, strike, batch, frame, delivery, queue, auth,
                   bisection, fetch, years>>

\* GreekClient.updateGreeksForSecurityTrade
updateGreeksForSecurityTrade(tickerSymbol) ==
    /\ setter = "routing"
    /\ engine' = routeSecurity("equityTrade", tickerSymbol)
    /\ UNCHANGED sessVars
    /\ UNCHANGED cacheVars
    /\ UNCHANGED treeVars
    /\ UNCHANGED <<codec, strike, batch, frame, delivery, queue, auth,
                   bisection, fetch, years>>

\* GreekClient.updateGreeksForSecurityQuote
updateGreeksForSecurityQuote(tickerSymbol) ==
    /\ setter = "routing"
    /\ engine' = routeSecurity("equityQuote", tickerSymbol)
    /\ UNCHANGED sessVars
    /\ UNCHANGED cacheVars
    /\ UNCHANGED treeVars
    /\ UNCHANGED <<codec, strike, batch, frame, delivery, queue, auth,
                   bisection, fetch, years>>

\* GreekClient.updateGreeksSecuritySupplementalDatumUpdated
updateGreeksSecuritySupplementalDatumUpdated(tickerSymbol) ==
    /\ setter = "routing"
    /\ engine' = routeSecurity("securityDatum", tickerSymbol)
    /\ UNCHANGED sessVars
    /\ UNCHANGED cacheVars
    /\ UNCHANGED treeVars
    /\ UNCHANGED <<codec, strike, batch, frame, delivery, queue, auth,
                   bisection, fetch, years>>

\* dataCache.SetSupplementaryDatum of a changed value, and
\* GreekClient.updateGreeks: every security of GetAllSecurityData() when the
\* key is the risk-free-rate key
updateGreeks(key) ==
    /\ setter = "routing"
    /\ engine' =
           routed(engine.securities, "globalDatum", key,
                  IF key = riskFreeInterestRateKey
                  THEN UNION {updateGreeksForSecurity(engine.securities, t) :
                                  t \in DOMAIN engine.securities}
                  ELSE {})
    /\ UNCHANGED sessVars
    /\ UNCHANGED cacheVars
    /\ UNCHANGED treeVars
    /\ UNCHANGED <<codec, strike, batch, frame, delivery, queue, auth,
                   bisection, fetch, years>>

(***************************************************************************)
(* The recomputation of the Greeks of one contract while several workers   *)
(* store trades of it.  optionsContractData.SetTrade takes no lock: its    *)
(* condition and its assignment are separate steps of the worker.  The     *)
(* task started for an accepted trade calls the handler of the GreekClient,*)
(* whose calculator reads the slot with GetLatestTrade.                    *)
(***************************************************************************)
\* SetTrade: if o.latestTrade == nil || (trade != nil && trade.Timestamp >
\* o.latestTrade.Timestamp); return false when the condition fails
SetTradeCondition(w) ==
    /\ setter = "recompute"
    /\ delivery.hold[w] # 0
    /\ delivery.pc[w] = "idle"
    /\ delivery' =
           IF accepts(tradeAt(delivery.hold[w]), delivery.latestTrade)
           THEN [delivery EXCEPT !.pc[w] = "store"]
           ELSE [delivery EXCEPT !.hold[w] = 0]
    /\ UNCHANGED sessVars
    /\ UNCHANGED cacheVars
    /\ UNCHANGED treeVars
    /\ UNCHANGED <<codec, strike, batch, frame, queue, auth, engine,
                   bisection, fetch, years>>

\* SetTrade: o.latestTrade = trade; return true; SetTradeWithCallback:
\* go func() { ... callback(o, dataCache, securityData) }()
SetTradeAssign(w) ==
    /\ setter = "recompute"
    /\ delivery.pc[w] = "store"
    /\ delivery' =
           [delivery EXCEPT
               !.latestTrade = tradeAt(delivery.hold[w]),
               !.passed = @ \cup {delivery.hold[w]},
               !.started = @ \cup {delivery.hold[w]},
               !.hold[w] = 0,
               !.pc[w] = "idle"]
    /\ UNCHANGED sessVars
    /\ UNCHANGED cacheVars
    /\ UNCHANGED treeVars
    /\ UNCHANGED <<codec, strike, batch, frame, queue, auth, engine,
                   bisection, fetch, years>>

\* optionsContractData.GetLatestTrade: return o.latestTrade
GetLatestTrade == delivery.latestTrade

\* the task started for the trade at position runs
\* updateGreeksForOptionsContractTrade, whose calculator blackScholesCalc
\* reads latestOptionTrade := optionsContractData.GetLatestTrade()
recompute(position) ==
    /\ setter = "recompute"
    /\ position \in delivery.started
    /\ delivery' = [delivery EXCEPT
                       !.started = @ \ {position},
                       !.invoked = Append(@, position),
                       !.read = put(@, position, GetLatestTrade.ts)]
    /\ UNCHANGED sessVars
    /\ UNCHANGED cacheVars
    /\ UNCHANGED treeVars
    /\ UNCHANGED <<codec, strike, batch, frame, queue, auth, engine,
                   bisection, fetch, years>>

(***************************************************************************)
(* The bisection of calcImpliedVolatilityCall and calcImpliedVolatilityPut.*)
(* low and high are multiples of 2^-17, which float64 holds exactly, and   *)
(* are kept as integers in that unit.  The price computed at the midpoint  *)
(* is compared with the market price; the comparison may come out either   *)
(* way.  The price calls normalSDist(d1).                                  *)
(***************************************************************************)
lowVol == 0

highVol == 5

\* volTolerance = 0.0001
volTolerance == [num |-> 1, den |-> 10000]

\* the number of units in 1.0
Scale == 2 ^ 17

\* (high - low) > volTolerance: a whole number of units exceeds the
\* tolerance when it exceeds the whole part of the tolerance in units
wide(low, high) ==
    (high - low) > (volTolerance.num * Scale) \div volTolerance.den

NoBisection ==
    [underlyingPrice |-> "fin", riskFreeInterestRate |-> "fin",
     low |-> 0, high |-> 0, halvings |-> 0, pc |-> "off", sum |-> "zero",
     result |-> 0]

(***************************************************************************)
(* The REST fetchers of the GreekClient: FetchRiskFreeInterestRate,        *)
(* fetchBulkCompanyDividendYield and FetchDividendYieldForTicker.  Each    *)
(* repeats a GET until one attempt succeeds or its tries are used up.      *)
(***************************************************************************)
Fetchers ==
    {"FetchRiskFreeInterestRate", "fetchBulkCompanyDividendYield",
     "FetchDividendYieldForTicker"}

\* the bound of tryCount in the loop condition of each fetcher
maxTries(fetcher) ==
    CASE fetcher = "FetchRiskFreeInterestRate" -> 10
      [] fetcher = "fetchBulkCompanyDividendYield" -> 5
      [] fetcher = "FetchDividendYieldForTicker" -> 3

\* what an attempt may meet: an error of http.Get, an error of io.ReadAll,
\* a body that strconv.ParseFloat or json.Unmarshal rejects, a body that
\* parses; the body of the bulk endpoint holds metrics, of which some have
\* a dividend yield that parses (here none, one or two)
FetchResponses ==
    {[kind |-> k, yields |-> 0] : k \in {"getErr", "readErr", "parseErr"}}
        \cup {[kind |-> "ok", yields |-> n] : n \in 0 .. 2}

\* the set operations an attempt calls on the cache: one for the rate or
\* the yield of the ticker, one per yield that parses for the bulk fetcher
setsOf(fetcher, response) ==
    IF response.kind # "ok" THEN 0
    ELSE IF fetcher = "fetchBulkCompanyDividendYield" THEN response.yields
    ELSE 1

\* a loop that goes on after a success
goesOnAfterSuccess(success, tryCount, fetcher) == tryCount < maxTries(fetcher)

\* the loop condition: success == false && tryCount < 10 (5, 3)
goesOn(success, tryCount, fetcher) ==
    ~success /\ tryCount < maxTries(fetcher)

NoFetch ==
    [fetcher |-> "-", tryCount |-> 0, success |-> FALSE, pc |-> "off",
     responses |-> <<>>, sets |-> 0]

\* one pass of the loop: tryCount++, http.Get, io.ReadAll, the parse, the
\* set operations on the cache and success = true
fetchAttempt(response) ==
    /\ setter = "fetch"
    /\ fetch.pc = "loop"
    /\ goesOn(fetch.success, fetch.tryCount, fetch.fetcher)
    /\ response.kind = "ok" /\ response.yields # 1 =>
           fetch.fetcher = "fetchBulkCompanyDividendYield"
    /\ fetch' = [fetch EXCEPT
                    !.tryCount = @ + 1,
                    !.responses = Append(@, response.kind),
                    !.sets = @ + setsOf(fetch.fetcher, response),
                    !.success = @ \/ response.kind = "ok"]
    /\ UNCHANGED sessVars
    /\ UNCHANGED cacheVars
    /\ UNCHANGED treeVars
    /\ UNCHANGED <<codec, strike, batch, frame, delivery, queue, auth,
                   engine, bisection, years>>

\* the loop condition fails (or the break was taken): the fetcher returns
fetchReturn ==
    /\ setter = "fetch"
    /\ fetch.pc = "loop"
    /\ ~goesOn(fetch.success, fetch.tryCount, fetch.fetcher)
    /\ fetch' = [fetch EXCEPT !.pc = "returned"]
    /\ UNCHANGED sessVars
    /\ UNCHANGED cacheVars
    /\ UNCHANGED treeVars
    /\ UNCHANGED <<codec, strike, batch, frame, delivery, queue, auth,
                   engine, bisection, years>>

(***************************************************************************)
(* Years to expiration: GreekClient.getYearsToExpiration, which            *)
(* blackScholesCalc calls, and BlackScholesGreekCalculator                 *)
(* .getYearsToExpiration, which Calculate calls.  Instants are minutes of  *)
(* Unix time; a result is the fraction num / den of minutes.               *)
(***************************************************************************)
\* the divisor of GreekClient.getYearsToExpiration, in seconds
yearSeconds == 31557600

\* the divisor of the calculator: Hours() / (365.0 * 24.0)
calculatorYearHours == 365 * 24

\* the zero value of time.Time, January 1 of year 1, 00:00 UTC
zeroInstant == 0 - 1035593280

\* the largest time.Duration, 2^63 - 1 nanoseconds, in whole minutes
maxDuration == 153722867

\* a nil *OptionQuote
nil == 0 - 1

\* time.Time.Sub: t - u, or the largest Duration when t - u exceeds it
Sub(t, u) == IF t - u > maxDuration THEN maxDuration ELSE t - u

\* GreekClient.getYearsToExpiration
getYearsToExpiration(expirationDate, latestOptionTrade, latestOptionQuote) ==
    LET tradeTime == latestOptionTrade
        latestEventTime ==
            IF latestOptionQuote # nil /\ latestOptionQuote > tradeTime
            THEN latestOptionQuote ELSE tradeTime
        eventTime == IF latestEventTime # 0 THEN latestEventTime
                     ELSE zeroInstant
        diff == Sub(expirationDate, eventTime)
    IN  [num |-> IF diff <= 0 THEN 0 ELSE diff, den |-> yearSeconds \div 60]

\* BlackScholesGreekCalculator.getYearsToExpiration
calculatorYearsToExpiration(expirationDate, now) ==
    LET yearsToExpiration == Sub(expirationDate, now) IN
    [num |-> IF yearsToExpiration < 0 THEN 0 ELSE yearsToExpiration,
     den |-> calculatorYearHours * 60]

NoYears ==
    [now |-> 0, expirationDate |-> 0, latestOptionTrade |-> 0,
     latestOptionQuote |-> 0, by |-> "-", result |-> [num |-> 0, den |-> 1]]

\* blackScholesCalc: yearsToExpiration := g.getYearsToExpiration(
\* latestTrade, latestQuote); blackScholesCalcOptionsEdge passes a nil quote
blackScholesCalcYears ==
    /\ setter = "years"
    /\ years.by = "-"
    /\ years' = [years EXCEPT
                    !.by = "GreekClient",
                    !.result = getYearsToExpiration(years.expirationDate,
                                                    years.latestOptionTrade,
                                                    years.latestOptionQuote)]
    /\ UNCHANGED sessVars
    /\ UNCHANGED cacheVars
    /\ UNCHANGED treeVars
    /\ UNCHANGED <<codec, strike, batch, frame, delivery, queue, auth,
                   engine, bisection, fetch>>

\* Calculate: yearsToExpiration := b.getYearsToExpiration(latestOptionTrade,
\* latestOptionQuote), reached with a quote that is not nil
CalculateYears ==
    /\ setter = "years"
    /\ years.by = "-"
    /\ years.latestOptionQuote # nil
    /\ years' = [years EXCEPT
                    !.by = "BlackScholesGreekCalculator",
                    !.result = calculatorYearsToExpiration(
                                   years.expirationDate, years.now)]
    /\ UNCHANGED sessVars
    /\ UNCHANGED cacheVars
    /\ UNCHANGED treeVars
    /\ UNCHANGED <<codec, strike, batch, frame, delivery, queue, auth,
                   engine, bisection, fetch>>

\* no calculation of the Greek engine under way
GreekNew == bisection = NoBisection /\ fetch = NoFetch /\ years = NoYears

\* nothing converted, read or received yet
WireNew == codec = NoCodec /\ strike = NoStrike /\ batch = NoBatch
           /\ frame = NoFrame
           /\ delivery = NoDelivery
           /\ queue = NoQueue
           /\ auth = NoAuth
           /\ engine = NoEngine
           /\ GreekNew

(***************************************************************************)
(* Application thread: Start().                                            *)
(***************************************************************************)
\* Start: isStopped = false, then getToken: a token younger than 24h is
\* returned as it is, otherwise doBackoff(trySetToken) begins with i = 0 and
\* its first, unconditional call of trySetToken
Start ==
    /\ ~crashed
    /\ appPc = "created"
    /\ isStopped' = FALSE
    /\ boI' = 0
    /\ boFails' = 0
    /\ appPc' = IF tokenFresh THEN "startDial" ELSE "startAuth"
    /\ UNCHANGED <<isClosed, subscriptions, writeChannel, readChannel,
                   wsConn, tokenFresh, closeWg, connLive, closeReceived,
                   crashed, appKey, readPc, writePc, remainingWriteCount,
                   rcPc, dialLedger, visited, gone, clearPending,
                   ledgerFrames, leaveState, closeFrame, frameAfterClose>>
    /\ UNCHANGED cacheVars
    /\ UNCHANGED treeVars
    /\ UNCHANGED wireVars

\* trySetToken called from getToken's doBackoff: the request succeeds (token
\* and tokenUpdateTime are set) or fails; after a failure the loop condition
\* !success && !*isStopped decides between sleeping and giving up
trySetToken ==
    /\ ~crashed
    /\ appPc = "startAuth"
    /\ \E ok \in BOOLEAN :
         IF ok
         THEN /\ tokenFresh' = TRUE
              /\ appPc' = "startDial"
              /\ boI' = 0
              /\ boFails' = 0
         ELSE /\ boFails < MaxFails
              /\ boFails' = boFails + 1
              /\ appPc' = IF isStopped THEN "startDial" ELSE "startSleep"
              /\ UNCHANGED <<tokenFresh, boI>>
    /\ UNCHANGED <<isStopped, isClosed, subscriptions, writeChannel,
                   readChannel, wsConn, closeWg, connLive, closeReceived,
                   crashed, appKey, readPc, writePc, remainingWriteCount,
                   rcPc, dialLedger, visited, gone, clearPending,
                   ledgerFrames, leaveState, closeFrame, frameAfterClose>>
    /\ UNCHANGED cacheVars
    /\ UNCHANGED treeVars
    /\ UNCHANGED wireVars

\* the sleep of getToken's doBackoff ends: if not stopped, advance i and
\* call trySetToken again
getTokenWake ==
    /\ ~crashed
    /\ appPc = "startSleep"
    /\ IF ~isStopped
       THEN /\ boI' = nextBackoffIndex(boI)
            /\ appPc' = "startAuth"
       ELSE /\ appPc' = "startDial"
            /\ UNCHANGED boI
    /\ UNCHANGED <<isStopped, isClosed, subscriptions, writeChannel,
                   readChannel, wsConn, tokenFresh, closeWg, connLive,
                   closeReceived, crashed, appKey, readPc, writePc,
                   remainingWriteCount, rcPc, boFails, dialLedger, visited,
                   gone, clearPending, ledgerFrames, leaveState,
                   closeFrame, frameAfterClose>>
    /\ UNCHANGED cacheVars
    /\ UNCHANGED treeVars
    /\ UNCHANGED wireVars

\* initWebSocket followed by the rest of Start: the dial succeeds (wsConn is
\* set, isClosed = false) or fails (initWebSocket only logs and returns);
\* either way Start adds the workers to closeWg and launches work, read, write
initWebSocket ==
    /\ ~crashed
    /\ appPc = "startDial"
    /\ \E ok \in BOOLEAN :
         IF ok
         THEN /\ wsConn' = "conn"
              /\ connLive' = TRUE
              /\ isClosed' = FALSE
         ELSE UNCHANGED <<wsConn, connLive, isClosed>>
    /\ closeWg' = workerCount
    /\ readPc' = "reading"
    /\ writePc' = "loop"
    /\ appPc' = "idle"
    /\ UNCHANGED <<isStopped, subscriptions, writeChannel, readChannel,
                   tokenFresh, closeReceived, crashed, appKey,
                   remainingWriteCount, rcPc, boI, boFails, dialLedger,
                   visited, gone, clearPending, ledgerFrames, leaveState,
                   closeFrame, frameAfterClose>>
    /\ UNCHANGED cacheVars
    /\ UNCHANGED treeVars
    /\ UNCHANGED wireVars

(***************************************************************************)
(* Application thread: Join, Leave.                                        *)
(***************************************************************************)
\* Join(symbol) is entered: a symbol that trims to "" returns at once
Join(symbol) ==
    /\ ~crashed
    /\ appPc = "idle"
    /\ IF TrimSpace(symbol) # ""
       THEN appPc' = "joinWait" /\ appKey' = symbol
       ELSE UNCHANGED <<appPc, appKey>>
    /\ UNCHANGED <<isStopped, isClosed, subscriptions, writeChannel,
                   readChannel, wsConn, tokenFresh, closeWg, connLive,
                   closeReceived, crashed, readPc, writePc,
                   remainingWriteCount, rcPc, boI, boFails, dialLedger,
                   visited, gone, clearPending, ledgerFrames, leaveState,
                   closeFrame, frameAfterClose>>
    /\ UNCHANGED cacheVars
    /\ UNCHANGED treeVars
    /\ UNCHANGED wireVars

\* for client.isClosed { time.Sleep(time.Second) }
JoinWait ==
    /\ ~crashed
    /\ appPc = "joinWait"
    /\ ~isClosed
    /\ appPc' = "joinCheck"
    /\ UNCHANGED <<isStopped, isClosed, subscriptions, writeChannel,
                   readChannel, wsConn, tokenFresh, closeWg, connLive,
                   closeReceived, crashed, appKey, readPc, writePc,
                   remainingWriteCount, rcPc, boI, boFails, dialLedger,
                   visited, gone, clearPending, ledgerFrames, leaveState,
                   closeFrame, frameAfterClose>>
    /\ UNCHANGED cacheVars
    /\ UNCHANGED treeVars
    /\ UNCHANGED wireVars

\* if !client.subscriptions[symbol] { client.subscriptions[symbol] = true
JoinCheck ==
    /\ ~crashed
    /\ appPc = "joinCheck"
    /\ IF needsJoin(appKey)
       THEN /\ subscriptions' = subscriptions \cup {appKey}
            /\ appPc' = "joinSend"
            /\ UNCHANGED appKey
       ELSE /\ appPc' = "idle"
            /\ appKey' = Blank
            /\ UNCHANGED subscriptions
    /\ UNCHANGED <<isStopped, isClosed, writeChannel, readChannel, wsConn,
                   tokenFresh, closeWg, connLive, closeReceived, crashed,
                   readPc, writePc, remainingWriteCount, rcPc, boI,
                   boFails, dialLedger, visited, gone, clearPending,
                   ledgerFrames, leaveState, closeFrame, frameAfterClose>>
    /\ UNCHANGED cacheVars
    /\ UNCHANGED treeVars
    /\ UNCHANGED wireVars

\* client.writeChannel <- client.composeJoinMsg(symbol): blocks while full
JoinSend ==
    /\ ~crashed
    /\ appPc = "joinSend"
    /\ Len(writeChannel) < WriteCap
    /\ writeChannel' = Append(writeChannel, composeJoinMsg(appKey))
    /\ ledgerFrames' = [ledgerFrames EXCEPT ![appKey] = @ + 1]
    /\ appPc' = "idle"
    /\ appKey' = Blank
    /\ UNCHANGED <<isStopped, isClosed, subscriptions, readChannel, wsConn,
                   tokenFresh, closeWg, connLive, closeReceived, crashed,
                   readPc, writePc, remainingWriteCount, rcPc, boI,
                   boFails, dialLedger, visited, gone, clearPending,
                   leaveState, closeFrame, frameAfterClose>>
    /\ UNCHANGED cacheVars
    /\ UNCHANGED treeVars
    /\ UNCHANGED wireVars

\* Leave(symbol) is entered: nothing to do when the symbol trims to "" or is
\* not in the ledger
Leave(symbol) ==
    /\ ~crashed
    /\ appPc = "idle"
    /\ IF TrimSpace(symbol) # "" /\ needsLeave(symbol)
       THEN appPc' = "leaveSend" /\ appKey' = symbol
       ELSE UNCHANGED <<appPc, appKey>>
    /\ UNCHANGED <<isStopped, isClosed, subscriptions, writeChannel,
                   readChannel, wsConn, tokenFresh, closeWg, connLive,
                   closeReceived, crashed, readPc, writePc,
                   remainingWriteCount, rcPc, boI, boFails, dialLedger,
                   visited, gone, clearPending, ledgerFrames, leaveState,
                   closeFrame, frameAfterClose>>
    /\ UNCHANGED cacheVars
    /\ UNCHANGED treeVars
    /\ UNCHANGED wireVars

\* client.writeChannel <- client.composeLeaveMsg(symbol): blocks while full
LeaveSend ==
    /\ ~crashed
    /\ appPc = "leaveSend"
    /\ Len(writeChannel) < WriteCap
    /\ writeChannel' = Append(writeChannel, composeLeaveMsg(appKey))
    /\ ledgerFrames' = [ledgerFrames EXCEPT ![appKey] = @ - 1]
    /\ appPc' = "leaveDel"
    /\ UNCHANGED <<isStopped, isClosed, subscriptions, readChannel, wsConn,
                   tokenFresh, closeWg, connLive, closeReceived, crashed,
                   appKey, readPc, writePc, remainingWriteCount, rcPc, boI,
                   boFails, dialLedger, visited, gone, clearPending,
                   leaveState, closeFrame, frameAfterClose>>
    /\ UNCHANGED cacheVars
    /\ UNCHANGED treeVars
    /\ UNCHANGED wireVars

\* delete(client.subscriptions, symbol)
LeaveDelete ==
    /\ ~crashed
    /\ appPc = "leaveDel"
    /\ subscriptions' = subscriptions \ {appKey}
    /\ gone' = IF rcPc = "rejoin" THEN gone \cup {appKey} ELSE gone
    /\ appPc' = "idle"
    /\ appKey' = Blank
    /\ UNCHANGED <<isStopped, isClosed, writeChannel, readChannel, wsConn,
                   tokenFresh, closeWg, connLive, closeReceived, crashed,
                   readPc, writePc, remainingWriteCount, rcPc, boI,
                   boFails, dialLedger, visited, clearPending,
                   ledgerFrames, leaveState, closeFrame, frameAfterClose>>
    /\ UNCHANGED cacheVars
    /\ UNCHANGED treeVars
    /\ UNCHANGED wireVars

(***************************************************************************)
(* Application thread: Stop() = LeaveAll(); isStopped = true; Wait().      *)
(***************************************************************************)
\* Stop() is entered and LeaveAll starts to range over the ledger
Stop ==
    /\ ~crashed
    /\ appPc = "idle"
    /\ appPc' = "leaveAll"
    /\ leaveState' = [k \in Keys |->
                        IF k \in subscriptions THEN "pending" ELSE "-"]
    /\ UNCHANGED <<isStopped, isClosed, subscriptions, writeChannel,
                   readChannel, wsConn, tokenFresh, closeWg, connLive,
                   closeReceived, crashed, appKey, readPc, writePc,
                   remainingWriteCount, rcPc, boI, boFails, dialLedger,
                   visited, gone, clearPending, ledgerFrames, closeFrame,
                   frameAfterClose>>
    /\ UNCHANGED cacheVars
    /\ UNCHANGED treeVars
    /\ UNCHANGED wireVars

\* LeaveAll, loop body, first statement: the leave frame of some key of the
\* ledger is sent to writeChannel (blocks while the channel is full)
LeaveAll ==
    /\ ~crashed
    /\ appPc = "leaveAll"
    /\ Len(writeChannel) < WriteCap
    /\ \E key \in subscriptions :
         /\ writeChannel' = Append(writeChannel, StopLeaveMsg(key))
         /\ ledgerFrames' = [ledgerFrames EXCEPT ![key] = @ - 1]
         /\ appKey' = key
    /\ appPc' = "leaveAllDel"
    /\ UNCHANGED <<isStopped, isClosed, subscriptions, readChannel, wsConn,
                   tokenFresh, closeWg, connLive, closeReceived, crashed,
                   readPc, writePc, remainingWriteCount, rcPc, boI,
                   boFails, dialLedger, visited, gone, clearPending,
                   leaveState, closeFrame, frameAfterClose>>
    /\ UNCHANGED cacheVars
    /\ UNCHANGED treeVars
    /\ UNCHANGED wireVars

\* LeaveAll, loop body, second statement: delete(client.subscriptions, key)
LeaveAllDelete ==
    /\ ~crashed
    /\ appPc = "leaveAllDel"
    /\ subscriptions' = subscriptions \ {appKey}
    /\ gone' = IF rcPc = "rejoin" THEN gone \cup {appKey} ELSE gone
    /\ appPc' = "leaveAll"
    /\ appKey' = Blank
    /\ UNCHANGED <<isStopped, isClosed, writeChannel, readChannel, wsConn,
                   tokenFresh, closeWg, connLive, closeReceived, crashed,
                   readPc, writePc, remainingWriteCount, rcPc, boI,
                   boFails, dialLedger, visited, clearPending,
                   ledgerFrames, leaveState, closeFrame, frameAfterClose>>
    /\ UNCHANGED cacheVars
    /\ UNCHANGED treeVars
    /\ UNCHANGED wireVars

\* the range of LeaveAll is exhausted; Stop sets isStopped = true
StopMark ==
    /\ ~crashed
    /\ appPc = "leaveAll"
    /\ subscriptions = {}
    /\ isStopped' = TRUE
    /\ appPc' = "wait"
    /\ UNCHANGED <<isClosed, subscriptions, writeChannel, readChannel,
                   wsConn, tokenFresh, closeWg, connLive, closeReceived,
                   crashed, appKey, readPc, writePc, remainingWriteCount,
                   rcPc, boI, boFails, dialLedger, visited, gone,
                   clearPending, ledgerFrames, leaveState, closeFrame,
                   frameAfterClose>>
    /\ UNCHANGED cacheVars
    /\ UNCHANGED treeVars
    /\ UNCHANGED wireVars

\* client.closeWg.Wait() returns and so does Stop
StopReturn ==
    /\ ~crashed
    /\ appPc = "wait"
    /\ closeWg = 0
    /\ appPc' = "stopped"
    /\ UNCHANGED <<isStopped, isClosed, subscriptions, writeChannel,
                   readChannel, wsConn, tokenFresh, closeWg, connLive,
                   closeReceived, crashed, appKey, readPc, writePc,
                   remainingWriteCount, rcPc, boI, boFails, dialLedger,
                   visited, gone, clearPending, ledgerFrames, leaveState,
                   closeFrame, frameAfterClose>>
    /\ UNCHANGED cacheVars
    /\ UNCHANGED treeVars
    /\ UNCHANGED wireVars

(***************************************************************************)
(* Read task.                                                              *)
(***************************************************************************)
\* one iteration of read(): ReadMessage on a nil connection panics; on a
\* connection that is no longer open it returns an error: isClosed = true,
\* then return if isStopped, else go reconnect() and wait on reconnected;
\* on an open connection a binary message arrives and is put on readChannel
\* unless the channel is full
read ==
    /\ ~crashed
    /\ readPc = "reading"
    /\ IF wsConn = "nil"
       THEN /\ crashed' = TRUE
            /\ UNCHANGED <<isClosed, readPc, rcPc, readChannel>>
       ELSE IF ~connLive
       THEN /\ isClosed' = TRUE
            /\ IF isStopped
               THEN /\ readPc' = "done"
                    /\ UNCHANGED rcPc
               ELSE /\ readPc' = "waitReconnected"
                    /\ rcPc' = "sleep10"
            /\ UNCHANGED <<crashed, readChannel>>
       ELSE /\ readChannel' = IF readChannel < ReadCap
                              THEN readChannel + 1 ELSE readChannel
            /\ UNCHANGED <<crashed, isClosed, readPc, rcPc>>
    /\ UNCHANGED <<isStopped, subscriptions, writeChannel, wsConn,
                   tokenFresh, closeWg, connLive, closeReceived, appPc,
                   appKey, writePc, remainingWriteCount, boI, boFails,
                   dialLedger, visited, gone, clearPending, ledgerFrames,
                   leaveState, closeFrame, frameAfterClose>>
    /\ UNCHANGED cacheVars
    /\ UNCHANGED treeVars
    /\ UNCHANGED wireVars

(***************************************************************************)
(* Write task.                                                             *)
(***************************************************************************)
\* top of the loop of write(): if isStopped, remember len(writeChannel) and
\* drain; if isClosed, sleep a second and look again; else go to the select
writeLoop ==
    /\ ~crashed
    /\ writePc = "loop"
    /\ IF isStopped
       THEN /\ remainingWriteCount' = drainCount
            /\ writePc' = "drain"
       ELSE /\ ~isClosed
            /\ writePc' = "select"
            /\ UNCHANGED remainingWriteCount
    /\ UNCHANGED <<isStopped, isClosed, subscriptions, writeChannel,
                   readChannel, wsConn, tokenFresh, closeWg, connLive,
                   closeReceived, crashed, appPc, appKey, readPc, rcPc,
                   boI, boFails, dialLedger, visited, gone, clearPending,
                   ledgerFrames, leaveState, closeFrame, frameAfterClose>>
    /\ UNCHANGED cacheVars
    /\ UNCHANGED treeVars
    /\ UNCHANGED wireVars

\* the select of write(): the heartbeat ticker has fired and an empty frame
\* is written, or (default) one frame is taken from writeChannel, if there
\* is one, and written.  A write on a nil connection panics.
writeSelect ==
    /\ ~crashed
    /\ writePc = "select"
    /\ IF wsConn = "nil"
       THEN /\ crashed' = TRUE
            /\ UNCHANGED <<writeChannel, writePc, leaveState,
                           frameAfterClose>>
       ELSE /\ \E beat \in BOOLEAN :
                 IF beat \/ writeChannel = <<>>
                 THEN /\ frameAfterClose' =
                            (frameAfterClose \/ (beat /\ closeFrame # "none"))
                      /\ UNCHANGED <<writeChannel, leaveState>>
                 ELSE /\ writeChannel' = Tail(writeChannel)
                      /\ leaveState' = written(Head(writeChannel))
                      /\ frameAfterClose' = (frameAfterClose \/ closeFrame # "none")
            /\ writePc' = "loop"
            /\ UNCHANGED crashed
    /\ UNCHANGED <<isStopped, isClosed, subscriptions, readChannel, wsConn,
                   tokenFresh, closeWg, connLive, closeReceived, appPc,
                   appKey, readPc, remainingWriteCount, rcPc, boI, boFails,
                   dialLedger, visited, gone, clearPending, ledgerFrames,
                   closeFrame>>
    /\ UNCHANGED cacheVars
    /\ UNCHANGED treeVars
    /\ UNCHANGED wireVars

\* the drain loop of the stopped branch: remainingWriteCount frames are taken
\* from writeChannel and written, one per step
writeDrain ==
    /\ ~crashed
    /\ writePc = "drain"
    /\ IF remainingWriteCount > 0
       THEN IF wsConn = "nil"
            THEN /\ crashed' = TRUE
                 /\ UNCHANGED <<writeChannel, writePc, remainingWriteCount,
                                leaveState, frameAfterClose>>
            ELSE /\ writeChannel # <<>>
                 /\ writeChannel' = Tail(writeChannel)
                 /\ leaveState' = written(Head(writeChannel))
                 /\ frameAfterClose' = (frameAfterClose \/ closeFrame # "none")
                 /\ remainingWriteCount' = remainingWriteCount - 1
                 /\ UNCHANGED <<crashed, writePc>>
       ELSE /\ writePc' = "close"
            /\ UNCHANGED <<crashed, writeChannel, remainingWriteCount,
                           leaveState, frameAfterClose>>
    /\ UNCHANGED <<isStopped, isClosed, subscriptions, readChannel, wsConn,
                   tokenFresh, closeWg, connLive, closeReceived, appPc,
                   appKey, readPc, rcPc, boI, boFails, dialLedger, visited,
                   gone, clearPending, ledgerFrames, closeFrame>>
    /\ UNCHANGED cacheVars
    /\ UNCHANGED treeVars
    /\ UNCHANGED wireVars

\* after the 500 ms sleep: WriteControl(CloseMessage, ...) and return; the
\* server receives the close frame if the connection is still open
writeClose ==
    /\ ~crashed
    /\ writePc = "close"
    /\ IF wsConn = "nil"
       THEN /\ crashed' = TRUE
            /\ UNCHANGED <<writePc, closeFrame, closeReceived>>
       ELSE /\ closeFrame' = outcome
            /\ closeReceived' = (closeReceived \/ connLive)
            /\ writePc' = "done"
            /\ UNCHANGED crashed
    /\ UNCHANGED <<isStopped, isClosed, subscriptions, writeChannel,
                   readChannel, wsConn, tokenFresh, closeWg, connLive,
                   appPc, appKey, readPc, remainingWriteCount, rcPc, boI,
                   boFails, dialLedger, visited, gone, clearPending,
                   ledgerFrames, leaveState, frameAfterClose>>
    /\ UNCHANGED cacheVars
    /\ UNCHANGED treeVars
    /\ UNCHANGED wireVars

(***************************************************************************)
(* Worker tasks (client.work).                                             *)
(***************************************************************************)
\* one iteration of a worker that is still running: with an empty readChannel
\* it returns (closeWg.Done) if isClosed && isStopped and sleeps otherwise;
\* with a payload in the channel workOnOptions takes and processes it
work ==
    /\ ~crashed
    /\ closeWg > 0
    /\ IF readChannel = 0
       THEN /\ isClosed /\ isStopped
            /\ closeWg' = closeWg - 1
            /\ UNCHANGED readChannel
       ELSE /\ readChannel' = readChannel - 1
            /\ UNCHANGED closeWg
    /\ UNCHANGED <<isStopped, isClosed, subscriptions, writeChannel,
                   wsConn, tokenFresh, connLive, closeReceived, crashed,
                   appPc, appKey, readPc, writePc, remainingWriteCount,
                   rcPc, boI, boFails, dialLedger, visited, gone,
                   clearPending, ledgerFrames, leaveState, closeFrame,
                   frameAfterClose>>
    /\ UNCHANGED cacheVars
    /\ UNCHANGED treeVars
    /\ UNCHANGED wireVars

(***************************************************************************)
(* Reconnect task: reconnect(), doBackoff, tryResetWebSocket.              *)
(***************************************************************************)
\* reconnect(): the ten-second sleep after wsConn.Close() ends and doBackoff
\* begins: i := 0 and the first call of fn, made without looking at isStopped.
\* (The assignment isClosed = false of the previous reconnect task, if still
\* pending, is a single statement and completes within these ten seconds.)
reconnect ==
    /\ ~crashed
    /\ rcPc = "sleep10"
    /\ ~clearPending
    /\ boI' = 0
    /\ boFails' = 0
    /\ rcPc' = attemptPc
    /\ UNCHANGED <<isStopped, isClosed, subscriptions, writeChannel,
                   readChannel, wsConn, tokenFresh, closeWg, connLive,
                   closeReceived, crashed, appPc, appKey, readPc, writePc,
                   remainingWriteCount, dialLedger, visited, gone,
                   clearPending, ledgerFrames, leaveState, closeFrame,
                   frameAfterClose>>
    /\ UNCHANGED cacheVars
    /\ UNCHANGED treeVars
    /\ UNCHANGED wireVars

\* trySetToken inside the reconnect function: success sets the token and
\* goes on to tryResetWebSocket, failure makes fn return false
reconnectTrySetToken ==
    /\ ~crashed
    /\ rcPc = "auth"
    /\ \E ok \in BOOLEAN :
         IF ok
         THEN /\ tokenFresh' = TRUE
              /\ rcPc' = "dial"
              /\ UNCHANGED boFails
         ELSE /\ boFails < MaxFails
              /\ boFails' = boFails + 1
              /\ rcPc' = "check"
              /\ UNCHANGED tokenFresh
    /\ UNCHANGED <<isStopped, isClosed, subscriptions, writeChannel,
                   readChannel, wsConn, closeWg, connLive, closeReceived,
                   crashed, appPc, appKey, readPc, writePc,
                   remainingWriteCount, boI, dialLedger, visited, gone,
                   clearPending, ledgerFrames, leaveState, closeFrame,
                   frameAfterClose>>
    /\ UNCHANGED cacheVars
    /\ UNCHANGED treeVars
    /\ UNCHANGED wireVars

\* tryResetWebSocket, the dial: on an error it returns false; on success
\* client.wsConn = conn and the range over client.subscriptions begins
tryResetWebSocket ==
    /\ ~crashed
    /\ rcPc = "dial"
    /\ \E ok \in BOOLEAN :
         IF ok
         THEN /\ wsConn' = "conn"
              /\ connLive' = TRUE
              /\ closeReceived' = FALSE
              /\ dialLedger' = subscriptions
              /\ visited' = {}
              /\ gone' = {}
              /\ rcPc' = "rejoin"
              /\ boI' = 0
              /\ boFails' = 0
         ELSE /\ boFails < MaxFails
              /\ boFails' = boFails + 1
              /\ rcPc' = "check"
              /\ UNCHANGED <<wsConn, connLive, closeReceived, dialLedger,
                             visited, gone, boI>>
    /\ UNCHANGED <<isStopped, isClosed, subscriptions, writeChannel,
                   readChannel, tokenFresh, closeWg, crashed, appPc,
                   appKey, readPc, writePc, remainingWriteCount,
                   clearPending, ledgerFrames, leaveState, closeFrame,
                   frameAfterClose>>
    /\ UNCHANGED cacheVars
    /\ UNCHANGED treeVars
    /\ UNCHANGED wireVars

\* the rejoin loop, one key: client.writeChannel <- composeJoinMsg(key),
\* which blocks while the channel is full.  The range produces a key that
\* is in the map and has not been produced yet.
rejoin ==
    /\ ~crashed
    /\ rcPc = "rejoin"
    /\ Len(writeChannel) < WriteCap
    /\ \E key \in subscriptions \ visited :
         /\ writeChannel' = Append(writeChannel, composeJoinMsg(key))
         /\ visited' = visited \cup {key}
    /\ UNCHANGED <<isStopped, isClosed, subscriptions, readChannel, wsConn,
                   tokenFresh, closeWg, connLive, closeReceived, crashed,
                   appPc, appKey, readPc, writePc, remainingWriteCount,
                   rcPc, boI, boFails, dialLedger, gone, clearPending,
                   ledgerFrames, leaveState, closeFrame, frameAfterClose>>
    /\ UNCHANGED cacheVars
    /\ UNCHANGED treeVars
    /\ UNCHANGED wireVars

\* the range ends; then client.reconnected <- true, received by the read
\* task that waits on the channel.  The task is left with isClosed = false.
reconnected ==
    /\ ~crashed
    /\ rcPc = "rejoin"
    /\ rangeDone
    /\ readPc = "waitReconnected"
    /\ readPc' = "reading"
    /\ rcPc' = "none"
    /\ clearPending' = TRUE
    /\ visited' = {}
    /\ dialLedger' = {}
    /\ gone' = {}
    /\ UNCHANGED <<isStopped, isClosed, subscriptions, writeChannel,
                   readChannel, wsConn, tokenFresh, closeWg, connLive,
                   closeReceived, crashed, appPc, appKey, writePc,
                   remainingWriteCount, boI, boFails, ledgerFrames,
                   leaveState, closeFrame, frameAfterClose>>
    /\ UNCHANGED cacheVars
    /\ UNCHANGED treeVars
    /\ UNCHANGED wireVars

\* the last statement of tryResetWebSocket: client.isClosed = false
clearClosed ==
    /\ ~crashed
    /\ clearPending
    /\ isClosed' = FALSE
    /\ clearPending' = FALSE
    /\ UNCHANGED <<isStopped, subscriptions, writeChannel, readChannel,
                   wsConn, tokenFresh, closeWg, connLive, closeReceived,
                   crashed, appPc, appKey, readPc, writePc,
                   remainingWriteCount, rcPc, boI, boFails, dialLedger,
                   visited, gone, ledgerFrames, leaveState, closeFrame,
                   frameAfterClose>>
    /\ UNCHANGED cacheVars
    /\ UNCHANGED treeVars
    /\ UNCHANGED wireVars

\* doBackoff, loop condition after a failed fn: for !success && !*isStopped;
\* a stopped session ends the loop and the task, otherwise time.Sleep(backoff)
doBackoffCheck ==
    /\ ~crashed
    /\ rcPc = "check"
    /\ IF isStopped
       THEN rcPc' = "none" /\ boI' = 0 /\ boFails' = 0
       ELSE rcPc' = "sleep" /\ UNCHANGED <<boI, boFails>>
    /\ UNCHANGED <<isStopped, isClosed, subscriptions, writeChannel,
                   readChannel, wsConn, tokenFresh, closeWg, connLive,
                   closeReceived, crashed, appPc, appKey, readPc, writePc,
                   remainingWriteCount, dialLedger, visited, gone,
                   clearPending, ledgerFrames, leaveState, closeFrame,
                   frameAfterClose>>
    /\ UNCHANGED cacheVars
    /\ UNCHANGED treeVars
    /\ UNCHANGED wireVars

\* doBackoff, after the sleep: if !*isStopped { i = min(i+1, len-1);
\* backoff = selfHealBackoffs[i]; success = fn() }
doBackoffWake ==
    /\ ~crashed
    /\ rcPc = "sleep"
    /\ IF ~isStopped
       THEN /\ boI' = nextBackoffIndex(boI)
            /\ rcPc' = attemptPc
       ELSE /\ rcPc' = "check"
            /\ UNCHANGED boI
    /\ UNCHANGED <<isStopped, isClosed, subscriptions, writeChannel,
                   readChannel, wsConn, tokenFresh, closeWg, connLive,
                   closeReceived, crashed, appPc, appKey, readPc, writePc,
                   remainingWriteCount, boFails, dialLedger, visited, gone,
                   clearPending, ledgerFrames, leaveState, closeFrame,
                   frameAfterClose>>
    /\ UNCHANGED cacheVars
    /\ UNCHANGED treeVars
    /\ UNCHANGED wireVars

\* the Go run time detects a map write that overlaps the range of the
\* reconnect task ("concurrent map iteration and map write") and aborts
mapFault ==
    /\ ~crashed
    /\ rcPc = "rejoin"
    /\ appPc \in {"joinCheck", "leaveDel", "leaveAllDel"}
    /\ crashed' = TRUE
    /\ UNCHANGED <<isStopped, isClosed, subscriptions, writeChannel,
                   readChannel, wsConn, tokenFresh, closeWg, connLive,
                   closeReceived, appPc, appKey, readPc, writePc,
                   remainingWriteCount, rcPc, boI, boFails, dialLedger,
                   visited, gone, clearPending, ledgerFrames, leaveState,
                   closeFrame, frameAfterClose>>
    /\ UNCHANGED cacheVars
    /\ UNCHANGED treeVars
    /\ UNCHANGED wireVars

(***************************************************************************)
(* Environment.                                                            *)
(***************************************************************************)
\* the network or the server drops the connection
connFail ==
    /\ ~crashed
    /\ connLive
    /\ ~closeReceived
    /\ connLive' = FALSE
    /\ UNCHANGED <<isStopped, isClosed, subscriptions, writeChannel,
                   readChannel, wsConn, tokenFresh, closeWg, closeReceived,
                   crashed, appPc, appKey, readPc, writePc,
                   remainingWriteCount, rcPc, boI, boFails, dialLedger,
                   visited, gone, clearPending, ledgerFrames, leaveState,
                   closeFrame, frameAfterClose>>
    /\ UNCHANGED cacheVars
    /\ UNCHANGED treeVars
    /\ UNCHANGED wireVars

\* the server answers the close frame by closing the connection
serverClose ==
    /\ ~crashed
    /\ connLive
    /\ closeReceived
    /\ connLive' = FALSE
    /\ UNCHANGED <<isStopped, isClosed, subscriptions, writeChannel,
                   readChannel, wsConn, tokenFresh, closeWg, closeReceived,
                   crashed, appPc, appKey, readPc, writePc,
                   remainingWriteCount, rcPc, boI, boFails, dialLedger,
                   visited, gone, clearPending, ledgerFrames, leaveState,
                   closeFrame, frameAfterClose>>
    /\ UNCHANGED cacheVars
    /\ UNCHANGED treeVars
    /\ UNCHANGED wireVars

\* 24 hours have passed since tokenUpdateTime.  The age of the token is
\* read only when an attempt of the reconnect function starts, so the step is
\* taken while the reconnect task sleeps before an attempt.
tokenExpires ==
    /\ ~crashed
    /\ tokenFresh
    /\ rcPc \in {"sleep10", "sleep"}
    /\ tokenFresh' = FALSE
    /\ UNCHANGED <<isStopped, isClosed, subscriptions, writeChannel,
                   readChannel, wsConn, closeWg, connLive, closeReceived,
                   crashed, appPc, appKey, readPc, writePc,
                   remainingWriteCount, rcPc, boI, boFails, dialLedger,
                   visited, gone, clearPending, ledgerFrames, leaveState,
                   closeFrame, frameAfterClose>>
    /\ UNCHANGED cacheVars
    /\ UNCHANGED treeVars
    /\ UNCHANGED wireVars

(***************************************************************************)
(* The set operations, each called by one task at a time.                  *)
(***************************************************************************)
\* optionsContractData.SetTrade
SetTrade(trade) ==
    /\ setter = "SetTrade"
    /\ contract' = setSlot(contract, "latestTrade", trade)
    /\ lastCall' = called("latestTrade", trade, contract.latestTrade,
                          accepts(trade, contract.latestTrade))
    /\ UNCHANGED sessVars
    /\ UNCHANGED <<security, setter, wPc, wArg, maxDone>>
    /\ UNCHANGED treeVars
    /\ UNCHANGED wireVars

\* optionsContractData.SetQuote
SetQuote(quote) ==
    /\ setter = "SetQuote"
    /\ contract' = setSlot(contract, "latestQuote", quote)
    /\ lastCall' = called("latestQuote", quote, contract.latestQuote,
                          accepts(quote, contract.latestQuote))
    /\ UNCHANGED sessVars
    /\ UNCHANGED <<security, setter, wPc, wArg, maxDone>>
    /\ UNCHANGED treeVars
    /\ UNCHANGED wireVars

\* optionsContractData.SetUnusualActivity
SetUnusualActivity(unusualActivity) ==
    /\ setter = "SetUnusualActivity"
    /\ contract' = setSlot(contract, "latestUnusualActivity", unusualActivity)
    /\ lastCall' = called("latestUnusualActivity", unusualActivity,
                          contract.latestUnusualActivity,
                          accepts(unusualActivity,
                                  contract.latestUnusualActivity))
    /\ UNCHANGED sessVars
    /\ UNCHANGED <<security, setter, wPc, wArg, maxDone>>
    /\ UNCHANGED treeVars
    /\ UNCHANGED wireVars

\* optionsContractData.SetTradeCandleStick
SetTradeCandleStick(tradeCandleStick) ==
    /\ setter = "SetTradeCandleStick"
    /\ contract' = setSlot(contract, "latestTradeCandleStick",
                           tradeCandleStick)
    /\ lastCall' = called("latestTradeCandleStick", tradeCandleStick,
                          contract.latestTradeCandleStick,
                          accepts(tradeCandleStick,
                                  contract.latestTradeCandleStick))
    /\ UNCHANGED sessVars
    /\ UNCHANGED <<security, setter, wPc, wArg, maxDone>>
    /\ UNCHANGED treeVars
    /\ UNCHANGED wireVars

\* optionsContractData.SetQuoteCandleStick
SetQuoteCandleStick(quoteCandleStick) ==
    /\ setter = "SetQuoteCandleStick"
    /\ contract' = setTyped(contract, quoteCandleStick,
                            "latestAskQuoteCandleStick",
                            "latestBidQuoteCandleStick")
    /\ lastCall' = calledTyped(contract, quoteCandleStick,
                               "latestAskQuoteCandleStick",
                               "latestBidQuoteCandleStick")
    /\ UNCHANGED sessVars
    /\ UNCHANGED <<security, setter, wPc, wArg, maxDone>>
    /\ UNCHANGED treeVars
    /\ UNCHANGED wireVars

\* securityData.SetEquitiesTrade
SetEquitiesTrade(trade) ==
    /\ setter = "SetEquitiesTrade"
    /\ security' = setSlot(security, "latestTrade", trade)
    /\ lastCall' = called("latestTrade", trade, security.latestTrade,
                          accepts(trade, security.latestTrade))
    /\ UNCHANGED sessVars
    /\ UNCHANGED <<contract, setter, wPc, wArg, maxDone>>
    /\ UNCHANGED treeVars
    /\ UNCHANGED wireVars

\* securityData.SetEquitiesQuote
SetEquitiesQuote(quote) ==
    /\ setter = "SetEquitiesQuote"
    /\ security' = setTyped(security, quote, "latestAskQuote",
                            "latestBidQuote")
    /\ lastCall' = calledTyped(security, quote, "latestAskQuote",
                               "latestBidQuote")
    /\ UNCHANGED sessVars
    /\ UNCHANGED <<contract, setter, wPc, wArg, maxDone>>
    /\ UNCHANGED treeVars
    /\ UNCHANGED wireVars

\* securityData.SetEquitiesTradeCandleStick
SetEquitiesTradeCandleStick(tradeCandleStick) ==
    /\ setter = "SetEquitiesTradeCandleStick"
    /\ security' = setSlot(security, "latestTradeCandleStick",
                           tradeCandleStick)
    /\ lastCall' = called("latestTradeCandleStick", tradeCandleStick,
                          security.latestTradeCandleStick,
                          accepts(tradeCandleStick,
                                  security.latestTradeCandleStick))
    /\ UNCHANGED sessVars
    /\ UNCHANGED <<contract, setter, wPc, wArg, maxDone>>
    /\ UNCHANGED treeVars
    /\ UNCHANGED wireVars

\* securityData.SetEquitiesQuoteCandleStick
SetEquitiesQuoteCandleStick(quoteCandleStick) ==
    /\ setter = "SetEquitiesQuoteCandleStick"
    /\ security' = setTyped(security, quoteCandleStick,
                            "latestAskQuoteCandleStick",
                            "latestBidQuoteCandleStick")
    /\ lastCall' = calledTyped(security, quoteCandleStick,
                               "latestAskQuoteCandleStick",
                               "latestBidQuoteCandleStick")
    /\ UNCHANGED sessVars
    /\ UNCHANGED <<contract, setter, wPc, wArg, maxDone>>
    /\ UNCHANGED treeVars
    /\ UNCHANGED wireVars

(***************************************************************************)
(* SetTrade called by the worker tasks at the same time.  The method takes *)
(* no lock: its test of the slot and its assignment are separate steps.    *)
(***************************************************************************)
\* worker w enters SetTrade(trade) and evaluates the condition; when it is
\* false the call returns false
SetTradeTest(w, trade) ==
    /\ setter = "workers"
    /\ wPc[w] = "idle"
    /\ IF accepts(trade, contract.latestTrade)
       THEN /\ wPc' = [wPc EXCEPT ![w] = "store"]
            /\ wArg' = [wArg EXCEPT ![w] = trade]
            /\ UNCHANGED maxDone
       ELSE /\ maxDone' = IF trade.ts > maxDone THEN trade.ts ELSE maxDone
            /\ UNCHANGED <<wPc, wArg>>
    /\ UNCHANGED sessVars
    /\ UNCHANGED <<contract, security, setter, lastCall>>
    /\ UNCHANGED treeVars
    /\ UNCHANGED wireVars

\* worker w executes o.latestTrade = trade and returns true
SetTradeStore(w) ==
    /\ setter = "workers"
    /\ wPc[w] = "store"
    /\ contract' = [contract EXCEPT !.latestTrade = wArg[w]]
    /\ maxDone' = IF wArg[w].ts > maxDone THEN wArg[w].ts ELSE maxDone
    /\ wPc' = [wPc EXCEPT ![w] = "idle"]
    /\ wArg' = [wArg EXCEPT ![w] = NilEvent]
    /\ UNCHANGED sessVars
    /\ UNCHANGED <<security, setter, lastCall>>
    /\ UNCHANGED treeVars
    /\ UNCHANGED wireVars

(***************************************************************************)
(* The set operations of the dataCache, each called by one task at a time, *)
(* and the observer tasks they start.                                      *)
(***************************************************************************)
\* dataCache.SetOptionsTrade, SetOptionsQuote, SetOptionsRefresh,
\* SetOptionsUnusualActivity, SetOptionsTradeCandleStick,
\* SetOptionsQuoteCandleStick, with the method of securityData and the
\* methods of optionsContractData each of them calls
SetOptionsEvent(op, event) ==
    /\ exercised(op)
    /\ canCall
    /\ IF event.nil
       THEN /\ treeCall' = treeCalled(op, event, FALSE, 0)
            /\ UNCHANGED <<securities, objects, pending>>
       ELSE LET tickerSymbol == extractTickerFromContract(event.id) IN
            IF tickerSymbol = <<>>
            THEN /\ treeCall' = treeCalled(op, event, FALSE, 0)
                 /\ UNCHANGED <<securities, objects, pending>>
            ELSE LET secs == withSecurity(tickerSymbol)
                     sec == secs[tickerSymbol]
                     ref == contractRef(sec, event.id)
                     heap == withContract(sec, event.id)
                     result == optionResult(op, heap[ref], event)
                 IN  /\ securities' =
                            [secs EXCEPT ![tickerSymbol].contracts =
                                             put(@, event.id, ref)]
                     /\ objects' =
                            [heap EXCEPT ![ref] = setOption(op, @, event)]
                     /\ pending' =
                            [pending EXCEPT ![op] = @ + optionScheduled(result)]
                     /\ treeCall' = treeCalled(op, event, result,
                                               optionScheduled(result))
    /\ UNCHANGED sessVars
    /\ UNCHANGED cacheVars
    /\ UNCHANGED <<supplementaryData, supplementaryDataMutex, heapTop,
                   commits, greeks, returned, pipeline, panicSeen,
                   callbackSet, tPc, tArg, tRef, tOld, tDone>>
    /\ UNCHANGED wireVars

SetOptionsTrade(trade) == SetOptionsEvent("SetOptionsTrade", trade)

SetOptionsQuote(quote) == SetOptionsEvent("SetOptionsQuote", quote)

SetOptionsRefresh(refresh) == SetOptionsEvent("SetOptionsRefresh", refresh)

SetOptionsUnusualActivity(unusualActivity) ==
    SetOptionsEvent("SetOptionsUnusualActivity", unusualActivity)

SetOptionsTradeCandleStick(tradeCandleStick) ==
    SetOptionsEvent("SetOptionsTradeCandleStick", tradeCandleStick)

SetOptionsQuoteCandleStick(quoteCandleStick) ==
    SetOptionsEvent("SetOptionsQuoteCandleStick", quoteCandleStick)

\* dataCache.SetEquityTrade, SetEquityQuote, SetEquityTradeCandleStick,
\* SetEquityQuoteCandleStick, with the method of securityData each calls
SetEquityEvent(op, event) ==
    /\ exercised(op)
    /\ canCall
    /\ IF event.nil
       THEN /\ treeCall' = treeCalled(op, event, FALSE, 0)
            /\ UNCHANGED <<securities, pending>>
       ELSE LET secs == withSecurity(event.id)
                result == equityResult(op, secs[event.id], event)
            IN  /\ securities' =
                       [secs EXCEPT ![event.id] = setEquity(op, @, event)]
                /\ pending' = [pending EXCEPT ![op] = @ + goCallback(result)]
                /\ treeCall' = treeCalled(op, event, result,
                                          goCallback(result))
    /\ UNCHANGED sessVars
    /\ UNCHANGED cacheVars
    /\ UNCHANGED <<objects, supplementaryData, supplementaryDataMutex,
                   heapTop, commits, greeks, returned, pipeline, panicSeen,
                   callbackSet, tPc, tArg, tRef, tOld, tDone>>
    /\ UNCHANGED wireVars

SetEquityTrade(trade) == SetEquityEvent("SetEquityTrade", trade)

SetEquityQuote(quote) == SetEquityEvent("SetEquityQuote", quote)

SetEquityTradeCandleStick(tradeCandleStick) ==
    SetEquityEvent("SetEquityTradeCandleStick", tradeCandleStick)

SetEquityQuoteCandleStick(quoteCandleStick) ==
    SetEquityEvent("SetEquityQuoteCandleStick", quoteCandleStick)

\* dataCache.SetSupplementaryDatum
SetSupplementaryDatum(key, datum, update) ==
    /\ exercised("SetSupplementaryDatum")
    /\ canCall
    /\ supplementaryData' = setDatum(supplementaryData, key, datum, update)
    /\ treeCall' = suppCalled("SetSupplementaryDatum", supplementaryData, key,
                              datum, update, TRUE)
    /\ pending' = [pending EXCEPT !.SetSupplementaryDatum =
                       @ + treeCall'.scheduled]
    /\ UNCHANGED sessVars
    /\ UNCHANGED cacheVars
    /\ UNCHANGED <<securities, objects, supplementaryDataMutex, heapTop,
                   commits, greeks, returned, pipeline, panicSeen,
                   callbackSet, tPc, tArg, tRef, tOld, tDone>>
    /\ UNCHANGED wireVars

\* dataCache.SetSecuritySupplementalDatum, with
\* securityData.SetSupplementaryDatumWithCallback
SetSecuritySupplementalDatum(tickerSymbol, key, datum, update) ==
    /\ setter = "SetSecuritySupplementalDatum"
    /\ canCall
    /\ IF tickerSymbol = <<>>
       THEN /\ treeCall' = suppCalled("SetSecuritySupplementalDatum", EmptyMap,
                                      key, datum, update, FALSE)
            /\ UNCHANGED <<securities, pending>>
       ELSE LET secs == withSecurity(tickerSymbol)
                m == secs[tickerSymbol].supplementaryData
            IN  /\ securities' =
                       [secs EXCEPT ![tickerSymbol].supplementaryData =
                                        setDatum(m, key, datum, update)]
                /\ treeCall' = suppCalled("SetSecuritySupplementalDatum", m,
                                          key, datum, update, TRUE)
                /\ pending' = [pending EXCEPT !.SetSecuritySupplementalDatum =
                                   @ + treeCall'.scheduled]
    /\ UNCHANGED sessVars
    /\ UNCHANGED cacheVars
    /\ UNCHANGED <<objects, supplementaryData, supplementaryDataMutex,
                   heapTop, commits, greeks, returned, pipeline, panicSeen,
                   callbackSet, tPc, tArg, tRef, tOld, tDone>>
    /\ UNCHANGED wireVars

\* dataCache.SetOptionSupplementalDatum, with
\* securityData.SetOptionsContractSupplementalDatumWithCallback and
\* optionsContractData.SetSupplementaryDatumWithCallback
SetOptionSupplementalDatum(tickerSymbol, contractId, key, datum, update) ==
    /\ setter = "SetOptionSupplementalDatum"
    /\ canCall
    /\ IF tickerSymbol = <<>> \/ contractId = <<>>
       THEN /\ treeCall' = suppCalled("SetOptionSupplementalDatum", EmptyMap,
                                      key, datum, update, FALSE)
            /\ UNCHANGED <<securities, objects, pending>>
       ELSE LET secs == withSecurity(tickerSymbol)
                sec == secs[tickerSymbol]
            IN  IF contractId \notin DOMAIN sec.contracts
                THEN /\ securities' = secs
                     /\ treeCall' = suppCalled("SetOptionSupplementalDatum",
                                               EmptyMap, key, datum, update,
                                               FALSE)
                     /\ UNCHANGED <<objects, pending>>
                ELSE LET ref == sec.contracts[contractId]
                         m == objects[ref].supplementaryData
                     IN  /\ securities' = secs
                         /\ objects' =
                                [objects EXCEPT ![ref].supplementaryData =
                                    setDatum(m, key, datum, update)]
                         /\ treeCall' =
                                suppCalled("SetOptionSupplementalDatum", m,
                                           key, datum, update, TRUE)
                         /\ pending' =
                                [pending EXCEPT !.SetOptionSupplementalDatum =
                                    @ + treeCall'.scheduled]
    /\ UNCHANGED sessVars
    /\ UNCHANGED cacheVars
    /\ UNCHANGED <<supplementaryData, supplementaryDataMutex, heapTop,
                   commits, greeks, returned, pipeline, panicSeen,
                   callbackSet, tPc, tArg, tRef, tOld, tDone>>
    /\ UNCHANGED wireVars

\* an observer task: "go func() { defer func() { recover() }(); callback(...) }()".
\* The callback returns or panics; a panic that nothing recovers ends the
\* process.
observer(op, panics) ==
    /\ pipeline = "running"
    /\ pending[op] > 0
    /\ pending' = [pending EXCEPT ![op] = @ - 1]
    /\ IF panics
       THEN /\ panicSeen' = TRUE
            /\ pipeline' = IF recovers THEN pipeline ELSE "terminated"
       ELSE UNCHANGED <<panicSeen, pipeline>>
    /\ UNCHANGED sessVars
    /\ UNCHANGED cacheVars
    /\ UNCHANGED <<securities, objects, supplementaryData,
                   supplementaryDataMutex, heapTop, commits, greeks,
                   treeCall, returned, callbackSet, tPc, tArg, tRef, tOld,
                   tDone>>
    /\ UNCHANGED wireVars

(***************************************************************************)
(* dataCache.SetOptionsTrade called by several tasks at the same time.     *)
(* The securities map is read and written inside one critical section of   *)
(* securitiesMutex.  The contracts map is read inside one critical section *)
(* of contractsMutex (GetOptionsContractData) and written inside another;  *)
(* SetTrade takes no lock.                                                 *)
(***************************************************************************)
\* task w calls SetOptionsTrade(trade): the nil test, the ticker, and the
\* locked get-or-create of the securityData
enterSetOptionsTrade(w, trade) ==
    /\ setter = "tasks"
    /\ tPc[w] = "idle"
    /\ IF trade.nil
       THEN /\ tDone' = [tDone EXCEPT ![w] =
                             treeCalled("SetOptionsTrade", trade, FALSE, 0)]
            /\ UNCHANGED <<securities, tPc, tArg>>
       ELSE LET tickerSymbol == extractTickerFromContract(trade.id) IN
            IF tickerSymbol = <<>>
            THEN /\ tDone' = [tDone EXCEPT ![w] =
                                 treeCalled("SetOptionsTrade", trade, FALSE, 0)]
                 /\ UNCHANGED <<securities, tPc, tArg>>
            ELSE /\ securities' = withSecurity(tickerSymbol)
                 /\ tPc' = [tPc EXCEPT ![w] = "lookup"]
                 /\ tArg' = [tArg EXCEPT ![w] = trade]
                 /\ UNCHANGED tDone
    /\ UNCHANGED sessVars
    /\ UNCHANGED cacheVars
    /\ UNCHANGED <<objects, supplementaryData, supplementaryDataMutex,
                   heapTop, commits, greeks, pending, treeCall, returned,
                   pipeline, panicSeen, callbackSet, tRef, tOld>>
    /\ UNCHANGED wireVars

\* securityData.SetOptionsContractTradeWithCallback:
\* contractData := s.GetOptionsContractData(trade.ContractId); when that is
\* nil, contractData = NewOptionsContractData(trade.ContractId)
lookupContract(w) ==
    /\ setter = "tasks"
    /\ tPc[w] = "lookup"
    /\ LET sec == securities[extractTickerFromContract(tArg[w].id)] IN
       /\ tRef' = [tRef EXCEPT ![w] = contractRef(sec, tArg[w].id)]
       /\ objects' = withContract(sec, tArg[w].id)
       /\ tPc' = [tPc EXCEPT ![w] =
                     IF tArg[w].id \in DOMAIN sec.contracts THEN "test"
                     ELSE "insert"]
    /\ UNCHANGED sessVars
    /\ UNCHANGED cacheVars
    /\ UNCHANGED <<securities, supplementaryData, supplementaryDataMutex,
                   heapTop, commits, greeks, pending, treeCall, returned,
                   pipeline, panicSeen, callbackSet, tArg, tOld, tDone>>
    /\ UNCHANGED wireVars

\* s.contractsMutex.Lock(); s.contracts[trade.ContractId] = contractData;
\* s.contractsMutex.Unlock()
insertContract(w) ==
    /\ setter = "tasks"
    /\ tPc[w] = "insert"
    /\ securities' =
           [securities EXCEPT
               ![extractTickerFromContract(tArg[w].id)].contracts =
                   put(@, tArg[w].id, tRef[w])]
    /\ tPc' = [tPc EXCEPT ![w] = "test"]
    /\ UNCHANGED sessVars
    /\ UNCHANGED cacheVars
    /\ UNCHANGED <<objects, supplementaryData, supplementaryDataMutex,
                   heapTop, commits, greeks, pending, treeCall, returned,
                   pipeline, panicSeen, callbackSet, tArg, tRef, tOld, tDone>>
    /\ UNCHANGED wireVars

\* the condition of contractData.SetTrade(trade); when it is false the call
\* returns false
testTrade(w) ==
    /\ setter = "tasks"
    /\ tPc[w] = "test"
    /\ IF accepts(tArg[w], objects[tRef[w]].latestTrade)
       THEN /\ tPc' = [tPc EXCEPT ![w] = "store"]
            /\ UNCHANGED <<tArg, tDone>>
       ELSE /\ tPc' = [tPc EXCEPT ![w] = "idle"]
            /\ tDone' = [tDone EXCEPT ![w] =
                             treeCalled("SetOptionsTrade", tArg[w], FALSE, 0)]
            /\ tArg' = [tArg EXCEPT ![w] = NilEvent]
    /\ UNCHANGED sessVars
    /\ UNCHANGED cacheVars
    /\ UNCHANGED <<securities, objects, supplementaryData,
                   supplementaryDataMutex, heapTop, commits, greeks,
                   pending, treeCall, returned, pipeline, panicSeen,
                   callbackSet, tRef, tOld>>
    /\ UNCHANGED wireVars

\* o.latestTrade = trade; return true, and the observers are scheduled
storeTrade(w) ==
    /\ setter = "tasks"
    /\ tPc[w] = "store"
    /\ objects' = [objects EXCEPT ![tRef[w]].latestTrade = tArg[w]]
    /\ pending' = [pending EXCEPT !.SetOptionsTrade = @ + optionScheduled(TRUE)]
    /\ tDone' = [tDone EXCEPT ![w] =
                     treeCalled("SetOptionsTrade", tArg[w], TRUE,
                                optionScheduled(TRUE))]
    /\ tPc' = [tPc EXCEPT ![w] = "idle"]
    /\ tArg' = [tArg EXCEPT ![w] = NilEvent]
    /\ UNCHANGED sessVars
    /\ UNCHANGED cacheVars
    /\ UNCHANGED <<securities, supplementaryData, supplementaryDataMutex,
                   heapTop, commits, greeks, treeCall, returned, pipeline,
                   panicSeen, callbackSet, tRef, tOld>>
    /\ UNCHANGED wireVars

(***************************************************************************)
(* SetSupplementaryDatum of the dataCache and of a securityData called by  *)
(* several tasks at the same time with a merge function that adds.  The    *)
(* method holds the supplementaryDataMutex from its first statement to its *)
(* return.                                                                 *)
(***************************************************************************)
\* most calls of SetSupplementaryDatum in one behaviour
MaxAdds == 3

\* the calls entered so far: those that have stored and those in progress
entered ==
    commits["global"] + commits["security"] +
    Cardinality({w \in Tasks : tPc[w] \in {"lock", "read", "merge"}})

\* task w calls dataCache.SetSupplementaryDatum(key, datum, add) or
\* dataCache.SetSecuritySupplementalDatum(ticker, key, datum, add): up to
\* the Lock of the supplementaryDataMutex
enterSetDatum(w, scope, key, datum) ==
    /\ setter = "merge"
    /\ tPc[w] = "idle"
    /\ entered < MaxAdds
    /\ securities' = IF scope = "security" THEN withSecurity(<<"A", "B">>)
                     ELSE securities
    /\ tArg' = [tArg EXCEPT ![w] =
                    [scope |-> scope, key |-> key, datum |-> datum,
                     update |-> "add"]]
    /\ tPc' = [tPc EXCEPT ![w] = "lock"]
    /\ UNCHANGED sessVars
    /\ UNCHANGED cacheVars
    /\ UNCHANGED <<objects, supplementaryData, supplementaryDataMutex,
                   heapTop, commits, greeks, pending, treeCall, returned,
                   pipeline, panicSeen, callbackSet, tRef, tOld, tDone>>
    /\ UNCHANGED wireVars

\* supplementaryDataMutex.Lock()
lockDatum(w) ==
    /\ setter = "merge"
    /\ tPc[w] = "lock"
    /\ canLock(supplementaryDataMutex[tArg[w].scope])
    /\ supplementaryDataMutex' =
           [supplementaryDataMutex EXCEPT ![tArg[w].scope] = w]
    /\ tPc' = [tPc EXCEPT ![w] = "read"]
    /\ UNCHANGED sessVars
    /\ UNCHANGED cacheVars
    /\ UNCHANGED <<securities, objects, supplementaryData, heapTop,
                   commits, greeks, pending, treeCall, returned, pipeline,
                   panicSeen, callbackSet, tArg, tRef, tOld, tDone>>
    /\ UNCHANGED wireVars

\* oldValue := supplementaryData[key]
readDatum(w) ==
    /\ setter = "merge"
    /\ tPc[w] = "read"
    /\ tOld' = [tOld EXCEPT ![w] = get(suppMap(tArg[w].scope), tArg[w].key)]
    /\ tPc' = [tPc EXCEPT ![w] = "merge"]
    /\ UNCHANGED sessVars
    /\ UNCHANGED cacheVars
    /\ UNCHANGED <<securities, objects, supplementaryData,
                   supplementaryDataMutex, heapTop, commits, greeks,
                   pending, treeCall, returned, pipeline, panicSeen,
                   callbackSet, tArg, tRef, tDone>>
    /\ UNCHANGED wireVars

\* newValue := update(key, oldValue, datum); if newValue != oldValue
\* { supplementaryData[key] = newValue }
mergeDatum(w) ==
    /\ setter = "merge"
    /\ tPc[w] = "merge"
    /\ LET a == tArg[w]
           newValue == merge(a.update, a.key, tOld[w], a.datum)
           result == differs(newValue, tOld[w])
           m == IF result THEN put(suppMap(a.scope), a.key, newValue)
                ELSE suppMap(a.scope)
       IN  /\ IF a.scope = "global"
              THEN /\ supplementaryData' = m
                   /\ UNCHANGED securities
              ELSE /\ securities' =
                          [securities EXCEPT
                              ![<<"A", "B">>].supplementaryData = m]
                   /\ UNCHANGED supplementaryData
           /\ heapTop' = heapTop + 1
           /\ commits' = [commits EXCEPT ![a.scope] =
                              IF result THEN @ + 1 ELSE @]
           /\ tDone' = [tDone EXCEPT ![w] =
                            [op |-> "SetSupplementaryDatum", arg |-> a.datum,
                             result |-> result, scheduled |-> 0,
                             afterPanic |-> panicSeen]]
           /\ tPc' = [tPc EXCEPT ![w] = "unlock"]
    /\ UNCHANGED sessVars
    /\ UNCHANGED cacheVars
    /\ UNCHANGED <<objects, supplementaryDataMutex, greeks, pending,
                   treeCall, returned, pipeline, panicSeen, callbackSet,
                   tArg, tRef, tOld>>
    /\ UNCHANGED wireVars

\* the deferred supplementaryDataMutex.Unlock(), and the return
unlockDatum(w) ==
    /\ setter = "merge"
    /\ tPc[w] = "unlock"
    /\ supplementaryDataMutex' =
           [supplementaryDataMutex EXCEPT ![tArg[w].scope] = "free"]
    /\ tPc' = [tPc EXCEPT ![w] = "idle"]
    /\ tArg' = [tArg EXCEPT ![w] = NilEvent]
    /\ tOld' = [tOld EXCEPT ![w] = NilPtr]
    /\ UNCHANGED sessVars
    /\ UNCHANGED cacheVars
    /\ UNCHANGED <<securities, objects, supplementaryData, heapTop,
                   commits, greeks, pending, treeCall, returned, pipeline,
                   panicSeen, callbackSet, tRef, tDone>>
    /\ UNCHANGED wireVars

(***************************************************************************)
(* The read operations of the dataCache and of securityData.               *)
(***************************************************************************)
\* the names of the read operations
Gets ==
    {"GetSecurityData", "GetOptionsContractData", "GetAllSecurityData",
     "GetAllOptionsContractData", "GetAllSupplementaryData"}

\* the maps the bulk gets copy, as Go maps from key to pointer: a
\* securityData is known by its ticker, a contract by the address of its
\* object
cacheMap(of) ==
    CASE of = "securities" -> [k \in DOMAIN securities |-> k]
      [] of = "contracts" ->
             IF <<"A", "B">> \in DOMAIN securities
             THEN securities[<<"A", "B">>].contracts
             ELSE EmptyMap
      [] of = "supplementaryData" -> supplementaryData
      [] OTHER -> EmptyMap

\* a bulk get that hands out the map of the cache itself
aliasOf(of) ==
    [of |-> of, alias |-> TRUE, m |-> cacheMap(of),
     atCall |-> DOMAIN cacheMap(of)]

\* result := make(map); for k, v := range m { result[k] = v }; return result
copyOf(of) ==
    [of |-> of, alias |-> FALSE, m |-> cacheMap(of),
     atCall |-> DOMAIN cacheMap(of)]

\* the map the caller of the last bulk get holds, as the caller reads it
seen == IF returned.alias THEN cacheMap(returned.of) ELSE returned.m

\* m without key: delete(m, key)
without(m, key) == [k \in DOMAIN m \ {key} |-> m[k]]

\* dataCache.GetSecurityData
GetSecurityData(tickerSymbol) ==
    /\ treeCall' = treeCalled("GetSecurityData",
                              [nil |-> FALSE, ts |-> 0, id |-> tickerSymbol],
                              tickerSymbol \in DOMAIN securities, 0)
    /\ UNCHANGED sessVars
    /\ UNCHANGED cacheVars
    /\ UNCHANGED <<securities, objects, supplementaryData,
                   supplementaryDataMutex, heapTop, commits, greeks,
                   pending, returned, pipeline, panicSeen, callbackSet,
                   tPc, tArg, tRef, tOld, tDone>>
    /\ UNCHANGED wireVars

\* dataCache.GetOptionsContractData, with securityData.GetOptionsContractData
GetOptionsContractData(tickerSymbol, contractId) ==
    /\ treeCall' = treeCalled("GetOptionsContractData",
                              [nil |-> FALSE, ts |-> 0, id |-> contractId],
                              /\ tickerSymbol \in DOMAIN securities
                              /\ contractId \in
                                     DOMAIN securities[tickerSymbol].contracts,
                              0)
    /\ UNCHANGED sessVars
    /\ UNCHANGED cacheVars
    /\ UNCHANGED <<securities, objects, supplementaryData,
                   supplementaryDataMutex, heapTop, commits, greeks,
                   pending, returned, pipeline, panicSeen, callbackSet,
                   tPc, tArg, tRef, tOld, tDone>>
    /\ UNCHANGED wireVars

\* dataCache.GetAllSecurityData, securityData.GetAllOptionsContractData of
\* the securityData GetSecurityData has found, dataCache.GetAllSupplementaryData
GetAll(of) ==
    /\ of = "contracts" => <<"A", "B">> \in DOMAIN securities
    /\ returned' = copyOf(of)
    /\ treeCall' = treeCalled(
                       CASE of = "securities" -> "GetAllSecurityData"
                         [] of = "contracts" -> "GetAllOptionsContractData"
                         [] of = "supplementaryData" ->
                                "GetAllSupplementaryData",
                       NilEvent, TRUE, 0)
    /\ UNCHANGED sessVars
    /\ UNCHANGED cacheVars
    /\ UNCHANGED <<securities, objects, supplementaryData,
                   supplementaryDataMutex, heapTop, commits, greeks,
                   pending, pipeline, panicSeen, callbackSet, tPc, tArg,
                   tRef, tOld, tDone>>
    /\ UNCHANGED wireVars

GetAllSecurityData == GetAll("securities")

GetAllOptionsContractData == GetAll("contracts")

GetAllSupplementaryData == GetAll("supplementaryData")

\* the caller of a bulk get changes the map it was handed: delete(result, key)
callerDelete(key) ==
    /\ returned.of # "none"
    /\ key \in DOMAIN seen
    /\ treeCall' = treeCalled("delete", NilEvent, TRUE, 0)
    /\ IF returned.alias
       THEN /\ securities' =
                  CASE returned.of = "securities" -> without(securities, key)
                    [] returned.of = "contracts" ->
                           [securities EXCEPT ![<<"A", "B">>].contracts =
                               without(@, key)]
                    [] OTHER -> securities
            /\ supplementaryData' =
                  IF returned.of = "supplementaryData"
                  THEN without(supplementaryData, key)
                  ELSE supplementaryData
            /\ UNCHANGED returned
       ELSE /\ returned' = [returned EXCEPT !.m = without(@, key)]
            /\ UNCHANGED <<securities, supplementaryData>>
    /\ UNCHANGED sessVars
    /\ UNCHANGED cacheVars
    /\ UNCHANGED <<objects, supplementaryDataMutex, heapTop, commits,
                   greeks, pending, pipeline, panicSeen, callbackSet, tPc,
                   tArg, tRef, tOld, tDone>>
    /\ UNCHANGED wireVars

(***************************************************************************)
(* The Black-Scholes calculator and the calculation function the           *)
(* GreekClient registers.  A float64 is modelled by its class: "nonpos" (a *)
(* finite number <= 0), "zero", "fin" (a finite number that is not zero;   *)
(* as an input, a positive one), "inf" (+Inf) and "nan".                   *)
(***************************************************************************)
\* the prices and rates a calculation can read: float32 fields decoded from
\* the wire and float64 data of the fetchers
Floats == {"nonpos", "fin", "inf", "nan"}

\* strike and years to expiration, computed from the contract id and the
\* clock: finite, positive or not
Derived == {"nonpos", "fin"}

\* x <= 0.0, false for NaN and for +Inf
nonPositive(x) == x = "nonpos"

\* a * b
times(a, b) ==
    IF a = "nan" \/ b = "nan" THEN "nan"
    ELSE IF {a, b} = {"inf", "zero"} THEN "nan"
    ELSE IF "inf" \in {a, b} THEN "inf"
    ELSE IF "zero" \in {a, b} THEN "zero"
    ELSE "fin"

\* a / b for a divisor that is not zero
over(a, b) ==
    IF a = "nan" \/ b = "nan" THEN "nan"
    ELSE IF a = "inf" /\ b = "inf" THEN "nan"
    ELSE IF a = "inf" THEN "inf"
    ELSE IF b = "inf" \/ a = "zero" THEN "zero"
    ELSE "fin"

\* a + b and a - b for terms that are not infinite with opposite signs
plus(a, b) ==
    IF a = "nan" \/ b = "nan" THEN "nan"
    ELSE IF "inf" \in {a, b} THEN "inf"
    ELSE "fin"

\* d1: (math.Log(S/K) + (r - q + 0.5*sigma*sigma)*T) / (sigma*math.Sqrt(T))
\* for finite positive K, T and sigma and a finite q
d1(underlyingPrice, riskFreeInterestRate) ==
    over(plus(underlyingPrice, times(riskFreeInterestRate, "fin")), "fin")

\* phi: math.Exp(-0.5*x*x) / rootPi, which is 0 at +Inf
phi(x) == IF x = "nan" THEN "nan" ELSE IF x = "inf" THEN "zero" ELSE "fin"

\* math.Exp(-r*T), which is 0 for r = +Inf
discount(riskFreeInterestRate) == phi(riskFreeInterestRate)

\* normalSDist returns 0 or 1 beyond the z scores -8 and 8 and a finite
\* number between; for NaN its loop "for (sum + term) != sum" never ends
normalSDistReturns(z) == z # "nan"

\* calcImpliedVolatility: the midpoint of the last interval of the
\* bisection, a number in (0, 5); it calls normalSDist(d1) at every step
calcImpliedVolatilityReturns(underlyingPrice, riskFreeInterestRate) ==
    normalSDistReturns(d1(underlyingPrice, riskFreeInterestRate))

\* calcGamma: phi(d1) * exp(-q*T) / (S * sigma * sqrt(T))
calcGamma(underlyingPrice, riskFreeInterestRate) ==
    over(times(phi(d1(underlyingPrice, riskFreeInterestRate)), "fin"),
         times(underlyingPrice, "fin"))

\* calcThetaCall, calcThetaPut:
\* term1 := S * phi(d1) * sigma / (2*sqrt(T))
\* term2 := r * K * exp(-r*T) * normalSDist(d2)
\* (-term1 -/+ term2) / 365.0
calcTheta(underlyingPrice, riskFreeInterestRate) ==
    LET term1 == times(underlyingPrice,
                       phi(d1(underlyingPrice, riskFreeInterestRate)))
        term2 == times(times(times(riskFreeInterestRate, "fin"),
                             discount(riskFreeInterestRate)), "fin")
    IN  plus(term1, term2)

\* calcVega: S * exp(-q*T) * phi(d1) * sqrt(T) / 100.0
calcVega(underlyingPrice, riskFreeInterestRate) ==
    times(times(underlyingPrice, "fin"),
          phi(d1(underlyingPrice, riskFreeInterestRate)))

\* NewGreek
NewGreek(impliedVolatility, delta, gamma, theta, vega, isValid) ==
    [ImpliedVolatility |-> impliedVolatility, Delta |-> delta,
     Gamma |-> gamma, Theta |-> theta, Vega |-> vega, IsValid |-> isValid]

\* Greek.IsValidGreek: valid, and no component NaN or infinite
IsValidGreek(g) ==
    /\ g.IsValid
    /\ \A c \in {"ImpliedVolatility", "Delta", "Gamma", "Theta", "Vega"} :
           g[c] \notin {"nan", "inf"}

\* the test of blackScholesCalc before it stores: if greek.IsValid
storable(greek) == greek.IsValid

\* the inputs of one calculation; of the quote only the sign of its prices
\* is told apart, since the Greeks are computed from the other inputs and
\* the implied volatility
Inputs ==
    [ask : Derived, bid : Derived, riskFreeInterestRate : Floats,
     underlyingPrice : Floats, yearsToExpiration : Derived, strike : Derived]

\* BlackScholesGreekCalculator.Calculate, when it returns
Calculate(in) ==
    IF \/ nonPositive(in.ask) \/ nonPositive(in.bid)
       \/ nonPositive(in.riskFreeInterestRate)
       \/ nonPositive(in.underlyingPrice)
    THEN NewGreek("zero", "zero", "zero", "zero", "zero", FALSE)
    ELSE IF nonPositive(in.yearsToExpiration) \/ nonPositive(in.strike)
    THEN NewGreek("zero", "zero", "zero", "zero", "zero", FALSE)
    ELSE NewGreek("fin", "fin",
                  calcGamma(in.underlyingPrice, in.riskFreeInterestRate),
                  calcTheta(in.underlyingPrice, in.riskFreeInterestRate),
                  calcVega(in.underlyingPrice, in.riskFreeInterestRate),
                  TRUE)

\* whether Calculate returns: it does when it short-circuits and when the
\* bisection does not meet a NaN
CalculateReturns(in) ==
    \/ Calculate(in).IsValid = FALSE
    \/ calcImpliedVolatilityReturns(in.underlyingPrice,
                                    in.riskFreeInterestRate)

\* dataCache.SetOptionGreekData with optionsContractData.SetGreekData: the
\* merged Greek is stored under the key when it differs from the old one
SetGreekData(m, key, datum, update) ==
    IF update = "takeNew" THEN put(m, key, datum) ELSE m

\* GreekClient.blackScholesCalc for a contract that has a trade and a quote
\* and whose security has a trade
blackScholesCalc(in) ==
    /\ setter = "blackScholesCalc"
    /\ IF CalculateReturns(in) /\ storable(Calculate(in))
       THEN /\ greeks' = SetGreekData(greeks, "IntrinioBlackScholes",
                                      Calculate(in), "takeNew")
            /\ treeCall' = [op |-> "blackScholesCalc", arg |-> in,
                            result |-> TRUE, scheduled |-> 0,
                            afterPanic |-> panicSeen]
       ELSE /\ UNCHANGED greeks
            /\ treeCall' = [op |-> "blackScholesCalc", arg |-> in,
                            result |-> FALSE, scheduled |-> 0,
                            afterPanic |-> panicSeen]
    /\ UNCHANGED sessVars
    /\ UNCHANGED cacheVars
    /\ UNCHANGED <<securities, objects, supplementaryData,
                   supplementaryDataMutex, heapTop, commits, pending,
                   returned, pipeline, panicSeen, callbackSet, tPc, tArg,
                   tRef, tOld, tDone>>
    /\ UNCHANGED wireVars

(***************************************************************************)
(* The steps of the bisection.                                             *)
(***************************************************************************)
\* low := lowVol; high := highVol
calcImpliedVolatility ==
    /\ setter = "bisection"
    /\ bisection.pc = "off"
    /\ bisection' = [bisection EXCEPT !.low = lowVol * Scale,
                                      !.high = highVol * Scale,
                                      !.pc = "loop"]
    /\ UNCHANGED sessVars
    /\ UNCHANGED cacheVars
    /\ UNCHANGED treeVars
    /\ UNCHANGED <<codec, strike, batch, frame, delivery, queue, auth,
                   engine, fetch, years>>

\* one pass of the loop: mid := (high + low) / 2.0; the price at mid calls
\* normalSDist(d1); if calc > marketPrice { high = mid } else { low = mid }
halve(above) ==
    /\ setter = "bisection"
    /\ bisection.pc = "loop"
    /\ wide(bisection.low, bisection.high)
    /\ LET mid == (bisection.high + bisection.low) \div 2 IN
       IF normalSDistReturns(d1(bisection.underlyingPrice,
                                bisection.riskFreeInterestRate))
       THEN bisection' =
                [bisection EXCEPT !.high = IF above THEN mid ELSE @,
                                  !.low = IF above THEN @ ELSE mid,
                                  !.halvings = @ + 1]
       ELSE bisection' = [bisection EXCEPT !.pc = "normalSDist"]
    /\ UNCHANGED sessVars
    /\ UNCHANGED cacheVars
    /\ UNCHANGED treeVars
    /\ UNCHANGED <<codec, strike, batch, frame, delivery, queue, auth,
                   engine, fetch, years>>

\* normalSDist(z) for a NaN z: term is NaN, (sum + term) != sum holds, and
\* sum += term leaves NaN in sum; every later pass finds the same
normalSDistTerm ==
    /\ setter = "bisection"
    /\ bisection.pc = "normalSDist"
    /\ bisection' = [bisection EXCEPT !.sum = "nan"]
    /\ UNCHANGED sessVars
    /\ UNCHANGED cacheVars
    /\ UNCHANGED treeVars
    /\ UNCHANGED <<codec, strike, batch, frame, delivery, queue, auth,
                   engine, fetch, years>>

\* the loop has ended: return (high + low) / 2.0
bisectionReturn ==
    /\ setter = "bisection"
    /\ bisection.pc = "loop"
    /\ ~wide(bisection.low, bisection.high)
    /\ bisection' =
           [bisection EXCEPT !.pc = "returned",
                             !.result = (bisection.high + bisection.low) \div 2]
    /\ UNCHANGED sessVars
    /\ UNCHANGED cacheVars
    /\ UNCHANGED treeVars
    /\ UNCHANGED <<codec, strike, batch, frame, delivery, queue, auth,
                   engine, fetch, years>>

(***************************************************************************)
(* The session specification.                                              *)
(***************************************************************************)
vars == <<sessVars, cacheVars, treeVars, wireVars>>

\* the session runs beside a cache that nobody calls
Init ==
    /\ SessInit /\ CacheNew /\ setter = "none"
    /\ TreeNew /\ WireNew /\ callbackSet = FALSE

appStep ==
    \/ Start \/ trySetToken \/ getTokenWake \/ initWebSocket
    \/ \E symbol \in Symbols : Join(symbol)
    \/ JoinWait \/ JoinCheck \/ JoinSend
    \/ \E symbol \in Symbols : Leave(symbol)
    \/ LeaveSend \/ LeaveDelete
    \/ Stop \/ LeaveAll \/ LeaveAllDelete \/ StopMark \/ StopReturn

writeStep == writeLoop \/ writeSelect \/ writeDrain \/ writeClose

reconnectStep ==
    \/ reconnect \/ reconnectTrySetToken \/ tryResetWebSocket \/ rejoin
    \/ reconnected \/ clearClosed \/ doBackoffCheck \/ doBackoffWake

Next ==
    \/ appStep \/ read \/ writeStep \/ work \/ reconnectStep
    \/ mapFault \/ connFail \/ serverClose \/ tokenExpires

Spec == Init /\ [][Next]_vars

(***************************************************************************)
(* Fair scheduling.  The Go scheduler runs every task that can take a      *)
(* step: the read task, the write task, the workers, the reconnect task,   *)
(* and the application thread inside a call it has made.  A send on a      *)
(* channel that has room again and again is eventually served (blocked     *)
(* senders queue up on the channel).  The server answers a close frame by  *)
(* closing the connection.  The heartbeat ticker fires every 20 seconds,   *)
(* so the select of the write task takes its default branch again and      *)
(* again.  Nothing obliges the application to make a call, the network to  *)
(* fail or the token to age.                                               *)
(***************************************************************************)
\* the default branch of the select of write() takes a frame from the queue
writeTake == writeSelect /\ Len(writeChannel') < Len(writeChannel)

appInCall ==
    \/ trySetToken \/ getTokenWake \/ initWebSocket
    \/ JoinWait \/ JoinCheck \/ LeaveDelete \/ LeaveAllDelete
    \/ StopMark \/ StopReturn

reconnectLocal ==
    \/ reconnect \/ reconnectTrySetToken \/ tryResetWebSocket
    \/ clearClosed \/ doBackoffCheck \/ doBackoffWake

Fairness ==
    /\ WF_vars(appInCall)
    /\ SF_vars(JoinSend)
    /\ SF_vars(LeaveSend)
    /\ SF_vars(LeaveAll)
    /\ WF_vars(read)
    /\ WF_vars(writeStep)
    /\ SF_vars(writeTake)
    /\ WF_vars(work)
    /\ WF_vars(reconnectLocal)
    /\ SF_vars(rejoin)
    /\ SF_vars(reconnected)
    /\ WF_vars(serverClose)

FairSpec == Init /\ [][Next]_vars /\ Fairness

(***************************************************************************)
(* The cache specifications: a cache exercised with one of its set         *)
(* operations by a single task, and SetTrade called by two workers at      *)
(* once.  The session is left as constructed.                              *)
(***************************************************************************)
CacheInit ==
    /\ SessInit /\ CacheNew /\ setter \in Setters
    /\ TreeNew /\ WireNew /\ callbackSet = FALSE

CacheNext ==
    \/ \E trade \in Events \cup {NilEvent} : SetTrade(trade)
    \/ \E quote \in Events \cup {NilEvent} : SetQuote(quote)
    \/ \E unusualActivity \in Events \cup {NilEvent} :
           SetUnusualActivity(unusualActivity)
    \/ \E tradeCandleStick \in Events \cup {NilEvent} :
           SetTradeCandleStick(tradeCandleStick)
    \/ \E quoteCandleStick \in TypedEvents \cup {NilEvent} :
           SetQuoteCandleStick(quoteCandleStick)
    \/ \E trade \in Events \cup {NilEvent} : SetEquitiesTrade(trade)
    \/ \E quote \in TypedEvents \cup {NilEvent} : SetEquitiesQuote(quote)
    \/ \E tradeCandleStick \in Events \cup {NilEvent} :
           SetEquitiesTradeCandleStick(tradeCandleStick)
    \/ \E quoteCandleStick \in TypedEvents \cup {NilEvent} :
           SetEquitiesQuoteCandleStick(quoteCandleStick)

SpecCache == CacheInit /\ [][CacheNext]_vars

WorkersInit ==
    /\ SessInit /\ CacheNew /\ setter = "workers"
    /\ TreeNew /\ WireNew /\ callbackSet = FALSE

WorkersNext ==
    \/ \E w \in Workers, trade \in Events : SetTradeTest(w, trade)
    \/ \E w \in Workers : SetTradeStore(w)

SpecWorkers == WorkersInit /\ [][WorkersNext]_vars


(***************************************************************************)
(* The dataCache exercised with one of its set operations by a single      *)
(* task, with or without the observer of that operation registered.        *)
(***************************************************************************)
\* a contract id too short to hold a ticker
ShortId == <<"X">>

TreeInit ==
    /\ SessInit /\ CacheNew /\ TreeNew /\ WireNew
    /\ setter \in OptionSetters \cup EquitySetters
    /\ callbackSet \in BOOLEAN

OptionInputs == EventsOn(TreeContracts \cup {ShortId}) \cup {NilEvent}
TypedOptionInputs ==
    TypedEventsOn({ContractId(<<"A", "B">>, "C"), ShortId}) \cup {NilEvent}
EquityInputs == EventsOn(TreeTickers) \cup {NilEvent}
TypedEquityInputs == TypedEventsOn({<<"A", "B">>}) \cup {NilEvent}

TreeNext ==
    \/ \E trade \in OptionInputs : SetOptionsTrade(trade)
    \/ \E quote \in OptionInputs : SetOptionsQuote(quote)
    \/ \E refresh \in OptionInputs : SetOptionsRefresh(refresh)
    \/ \E unusualActivity \in OptionInputs :
           SetOptionsUnusualActivity(unusualActivity)
    \/ \E tradeCandleStick \in OptionInputs :
           SetOptionsTradeCandleStick(tradeCandleStick)
    \/ \E quoteCandleStick \in TypedOptionInputs :
           SetOptionsQuoteCandleStick(quoteCandleStick)
    \/ \E trade \in EquityInputs : SetEquityTrade(trade)
    \/ \E quote \in TypedEquityInputs : SetEquityQuote(quote)
    \/ \E tradeCandleStick \in EquityInputs :
           SetEquityTradeCandleStick(tradeCandleStick)
    \/ \E quoteCandleStick \in TypedEquityInputs :
           SetEquityQuoteCandleStick(quoteCandleStick)
    \/ \E op \in OptionSetters \cup EquitySetters, panics \in BOOLEAN :
           observer(op, panics)

SpecTree == TreeInit /\ [][TreeNext]_vars

(***************************************************************************)
(* The dataCache exercised with one of its set operations for              *)
(* supplementary data by a single task.                                    *)
(***************************************************************************)
SuppInit ==
    /\ SessInit /\ CacheNew /\ TreeNew /\ WireNew
    /\ setter \in SuppSetters
    /\ callbackSet \in BOOLEAN

\* the ticker and the contract of the supplementary data, and the empty
\* strings the set operations refuse
SuppTickers == {<<"A", "B">>, <<>>}
SuppContracts == {ContractId(<<"A", "B">>, "C"), <<>>}
Pointers == Cells \cup {NilPtr}

\* the option trade that makes the contract
FirstTrades == {e \in EventsOn(SuppContracts \ {<<>>}) : e.ts = 1}

SuppNext ==
    \/ \E key \in SuppKeys, datum \in Pointers, update \in Updates :
           SetSupplementaryDatum(key, datum, update)
    \/ \E tickerSymbol \in SuppTickers, key \in SuppKeys, datum \in Pointers,
          update \in Updates :
           SetSecuritySupplementalDatum(tickerSymbol, key, datum, update)
    \/ \E tickerSymbol \in SuppTickers, contractId \in SuppContracts,
          key \in SuppKeys, datum \in Pointers, update \in Updates :
           SetOptionSupplementalDatum(tickerSymbol, contractId, key, datum,
                                      update)
    \/ \E trade \in FirstTrades : SetOptionsTrade(trade)
    \/ \E op \in SuppSetters \cup {"SetOptionsTrade"}, panics \in BOOLEAN :
           observer(op, panics)

SpecSupp == SuppInit /\ [][SuppNext]_vars

(***************************************************************************)
(* The dataCache called by the tasks at the same time, each delivering     *)
(* option trades of one contract; no observer is registered.               *)
(***************************************************************************)
TasksInit ==
    /\ SessInit /\ CacheNew /\ TreeNew /\ WireNew
    /\ setter = "tasks"
    /\ callbackSet = FALSE

TaskInputs == EventsOn({ContractId(<<"A", "B">>, "C")}) \cup {NilEvent}

TasksNext ==
    \/ \E w \in Tasks, trade \in TaskInputs : enterSetOptionsTrade(w, trade)
    \/ \E w \in Tasks : lookupContract(w)
    \/ \E w \in Tasks : insertContract(w)
    \/ \E w \in Tasks : testTrade(w)
    \/ \E w \in Tasks : storeTrade(w)

SpecTasks == TasksInit /\ [][TasksNext]_vars

(***************************************************************************)
(* Supplementary data written by the tasks at the same time.               *)
(***************************************************************************)
MergeInit ==
    /\ SessInit /\ CacheNew /\ TreeNew /\ WireNew
    /\ setter = "merge"
    /\ callbackSet = FALSE

\* the number every call adds
One == {c \in Cells : c.addr = 1}

MergeNext ==
    \/ \E w \in Tasks, scope \in Scopes, key \in SuppKeys, datum \in One :
           enterSetDatum(w, scope, key, datum)
    \/ \E w \in Tasks : lockDatum(w)
    \/ \E w \in Tasks : readDatum(w)
    \/ \E w \in Tasks : mergeDatum(w)
    \/ \E w \in Tasks : unlockDatum(w)

SpecMerge == MergeInit /\ [][MergeNext]_vars

(***************************************************************************)
(* The dataCache with its observers registered: set operations and the     *)
(* observer tasks they start, which return or panic.                       *)
(***************************************************************************)
\* the set operations whose observer tasks are followed
Observed == {"SetEquityTrade", "SetSupplementaryDatum"}

ObserversInit ==
    /\ SessInit /\ CacheNew /\ TreeNew /\ WireNew
    /\ setter \in Observed
    /\ callbackSet = TRUE

ObserversNext ==
    \/ \E trade \in EquityInputs : SetEquityTrade(trade)
    \/ \E key \in SuppKeys, datum \in Pointers, update \in Updates :
           SetSupplementaryDatum(key, datum, update)
    \/ \E op \in Observed, panics \in BOOLEAN : observer(op, panics)

SpecObservers == ObserversInit /\ [][ObserversNext]_vars

(***************************************************************************)
(* The dataCache filled by one task that also calls the bulk gets and      *)
(* changes the maps they return.                                           *)
(***************************************************************************)
BulkInit ==
    /\ SessInit /\ CacheNew /\ TreeNew /\ WireNew
    /\ setter = "bulk"
    /\ callbackSet = FALSE

\* the keys of supplementary data the GreekClient writes
BulkKeys == {"DividendYield", "RiskFreeInterestRate"}

BulkNext ==
    \/ \E trade \in {e \in EventsOn(TreeTickers) : e.ts = 1} :
           SetEquityTrade(trade)
    \/ \E trade \in {e \in EventsOn(TreeContracts) : e.ts = 1} :
           SetOptionsTrade(trade)
    \/ \E key \in BulkKeys, datum \in One :
           SetSupplementaryDatum(key, datum, "takeNew")
    \/ GetAllSecurityData
    \/ GetAllOptionsContractData
    \/ GetAllSupplementaryData
    \/ \E key \in DOMAIN seen : callerDelete(key)

SpecBulk == BulkInit /\ [][BulkNext]_vars

(***************************************************************************)
(* The dataCache exercised with one of its set operations and with its     *)
(* read operations by a single task; no observer is registered.            *)
(***************************************************************************)
GrowInit ==
    /\ SessInit /\ CacheNew /\ TreeNew /\ WireNew
    /\ setter \in OptionSetters \cup EquitySetters \cup SuppSetters
    /\ callbackSet = FALSE

GrowNext ==
    \/ \E trade \in OptionInputs \cup FirstTrades : SetOptionsTrade(trade)
    \/ \E quote \in OptionInputs : SetOptionsQuote(quote)
    \/ \E refresh \in OptionInputs : SetOptionsRefresh(refresh)
    \/ \E unusualActivity \in OptionInputs :
           SetOptionsUnusualActivity(unusualActivity)
    \/ \E tradeCandleStick \in OptionInputs :
           SetOptionsTradeCandleStick(tradeCandleStick)
    \/ \E quoteCandleStick \in TypedOptionInputs :
           SetOptionsQuoteCandleStick(quoteCandleStick)
    \/ \E trade \in EquityInputs : SetEquityTrade(trade)
    \/ \E quote \in TypedEquityInputs : SetEquityQuote(quote)
    \/ \E tradeCandleStick \in EquityInputs :
           SetEquityTradeCandleStick(tradeCandleStick)
    \/ \E quoteCandleStick \in TypedEquityInputs :
           SetEquityQuoteCandleStick(quoteCandleStick)
    \/ \E key \in SuppKeys, datum \in Pointers, update \in Updates :
           SetSupplementaryDatum(key, datum, update)
    \/ \E tickerSymbol \in SuppTickers, key \in SuppKeys, datum \in Pointers,
          update \in Updates :
           SetSecuritySupplementalDatum(tickerSymbol, key, datum, update)
    \/ \E tickerSymbol \in SuppTickers, contractId \in SuppContracts,
          key \in SuppKeys, datum \in Pointers, update \in Updates :
           SetOptionSupplementalDatum(tickerSymbol, contractId, key, datum,
                                      update)
    \/ \E tickerSymbol \in TreeTickers : GetSecurityData(tickerSymbol)
    \/ \E tickerSymbol \in TreeTickers, contractId \in TreeContracts :
           GetOptionsContractData(tickerSymbol, contractId)

SpecGrow == GrowInit /\ [][GrowNext]_vars

(***************************************************************************)
(* The dataCache given option trades on underlyings whose symbols have     *)
(* one to six bytes.                                                       *)
(***************************************************************************)
\* one symbol of every length a contract id can hold
Underlyings ==
    {<<"A">>, <<"A", "B">>, <<"A", "B", "C">>, <<"A", "B", "C", "D">>,
     <<"A", "B", "C", "D", "E">>, <<"A", "B", "C", "D", "E", "F">>}

FilingInit ==
    /\ SessInit /\ CacheNew /\ TreeNew /\ WireNew
    /\ setter = "SetOptionsTrade"
    /\ callbackSet = FALSE

FilingInputs ==
    {e \in EventsOn({ContractId(symbol, "C") : symbol \in Underlyings}) : e.ts = 1}

FilingNext == \E trade \in FilingInputs : SetOptionsTrade(trade)

SpecFiling == FilingInit /\ [][FilingNext]_vars

(***************************************************************************)
(* The calculation function of the GreekClient run on every class of       *)
(* input.                                                                  *)
(***************************************************************************)
GreeksInit ==
    /\ SessInit /\ CacheNew /\ TreeNew /\ WireNew
    /\ setter = "blackScholesCalc"
    /\ callbackSet = FALSE

GreeksNext == \E in \in Inputs : blackScholesCalc(in)

SpecGreeks == GreeksInit /\ [][GreeksNext]_vars

(***************************************************************************)
(* The two conversions of a contract id, applied to valid 21-byte ids.     *)
(***************************************************************************)
\* expiration dates, whole parts and fractional parts of the strike
Expirations == {<<"2", "4", "0", "1", "1", "9">>}
Wholes ==
    {<<"0", "0", "0", "0", "0">>, <<"0", "0", "1", "5", "0">>,
     <<"1", "2", "3", "4", "5">>}
Parts ==
    {<<"0", "0", "0">>, <<"5", "0", "0">>, <<"2", "5", "0">>,
     <<"1", "2", "5">>}

ValidIds ==
    {OldContractId(symbol, exp, pc, whole, part) :
        symbol \in Underlyings, exp \in Expirations, pc \in {"C", "P"},
        whole \in Wholes, part \in Parts}

CodecInit ==
    /\ SessInit /\ CacheNew /\ TreeNew /\ GreekNew
    /\ callbackSet = FALSE
    /\ setter = "codec"
    /\ strike = NoStrike
    /\ batch = NoBatch
    /\ frame = NoFrame
    /\ delivery = NoDelivery
    /\ queue = NoQueue
    /\ auth = NoAuth
    /\ engine = NoEngine
    /\ \E id \in ValidIds : codec = [NoCodec EXCEPT !.id = id]

CodecNext == toNewFormat \/ toOldFormat

SpecCodec == CodecInit /\ [][CodecNext]_vars

(***************************************************************************)
(* The strike accessors applied to 21-byte contract ids.                   *)
(***************************************************************************)
StrikeWholes ==
    {<<"0", "0", "1", "5", "0">>, <<"6", "5", "5", "3", "5">>,
     <<"6", "5", "5", "3", "6">>, <<"7", "0", "0", "0", "0">>,
     <<"9", "9", "9", "9", "9">>}
StrikeParts ==
    {<<"0", "0", "0">>, <<"5", "0", "0">>, <<"1", "2", "5">>,
     <<"9", "9", "9">>}

StrikeIds ==
    {OldContractId(<<"A", "B">>, exp, pc, whole, part) :
        exp \in Expirations, pc \in {"C", "P"}, whole \in StrikeWholes,
        part \in StrikeParts}

StrikeInit ==
    /\ SessInit /\ CacheNew /\ TreeNew /\ GreekNew
    /\ callbackSet = FALSE
    /\ setter = "strike"
    /\ codec = NoCodec
    /\ batch = NoBatch
    /\ frame = NoFrame
    /\ delivery = NoDelivery
    /\ queue = NoQueue
    /\ auth = NoAuth
    /\ engine = NoEngine
    /\ \E id \in StrikeIds : strike = [NoStrike EXCEPT !.id = id]

StrikeNext == \E of \in Accessors : readStrike(of)

SpecStrike == StrikeInit /\ [][StrikeNext]_vars

(***************************************************************************)
(* One worker and one payload.  A payload is a count byte and records; the *)
(* records are well formed, truncated, of an unknown type, or carry a      *)
(* length byte the record does not hold.  The array may be longer than the *)
(* payload (the reader's buffer), the bytes beyond it are zero.            *)
(***************************************************************************)
MaxRecords == 2

\* size bytes of the given first bytes followed by zeros
bytesOf(first, size) ==
    [j \in 1 .. size |-> IF j <= Len(first) THEN first[j] ELSE 0]

\* an equities record: type, length, symbol length, and the bytes present
equityRecord(type, length, symbolLen, present) ==
    bytesOf(<<type, length, symbolLen>>, present)

EquityRecords ==
    {equityRecord(1, 24, 1, 24), equityRecord(0, 28, 1, 28),
     equityRecord(7, 24, 1, 24), equityRecord(0, 28, 1, 10),
     equityRecord(2, 24, 250, 24)}

\* "A_240119C1.50" as the feed sends it
contractBytes == <<65, 95, 50, 52, 48, 49, 49, 57, 67, 49, 46, 53, 48>>

\* an options record: symbol length, symbol, message type at byte 22, price
\* type at bytes 23 to 25, and the bytes present
optionRecord(symbolLen, msgType, priceType, present) ==
    [j \in 1 .. present |->
        IF j = 1 THEN symbolLen
        ELSE IF j - 1 <= Len(contractBytes) THEN contractBytes[j - 1]
        ELSE IF j = 23 THEN msgType
        ELSE IF j \in 24 .. 26 THEN priceType
        ELSE 0]

OptionRecords ==
    {optionRecord(13, 0, 2, 72), optionRecord(13, 1, 2, 52),
     optionRecord(13, 2, 2, 52), optionRecord(13, 3, 2, 74),
     optionRecord(0, 1, 2, 52), optionRecord(13, 1, 2, 30),
     optionRecord(13, 1, 200, 52)}

RECURSIVE Flatten(_)
Flatten(records) ==
    IF records = <<>> THEN <<>>
    ELSE Head(records) \o Flatten(Tail(records))

\* the payloads of up to most records, with a count of up to most + 1
Payloads(Records, most) ==
    {<<>>} \cup {<<count>> \o Flatten(records) :
                    count \in 0 .. (most + 1),
                    records \in UNION {[1 .. k -> Records] : k \in 0 .. most}}

\* the bytes of the reader's buffer beyond the payload
Slack == {0, 32}

CallbackSets ==
    [equities |-> SUBSET {"trade", "quote"},
     options |-> {{}, {"trade"}, {"quote", "refresh", "ua"},
                  {"trade", "quote", "refresh", "ua"}}]

BatchInit ==
    /\ SessInit /\ CacheNew /\ TreeNew /\ GreekNew
    /\ callbackSet = FALSE
    /\ setter = "batch"
    /\ codec = NoCodec
    /\ strike = NoStrike
    /\ frame = NoFrame
    /\ delivery = NoDelivery
    /\ queue = NoQueue
    /\ auth = NoAuth
    /\ engine = NoEngine
    /\ \E feed \in {"equities", "options"}, slack \in Slack :
           \E payload \in IF feed = "equities"
                           THEN Payloads(EquityRecords, MaxRecords + 1)
                           ELSE Payloads(OptionRecords, MaxRecords),
              on \in CallbackSets[feed] :
               batch = [NoBatch EXCEPT !.feed = feed,
                                       !.arr = bytesOf(payload,
                                                       Len(payload) + slack),
                                       !.n = Len(payload),
                                       !.on = on]

BatchNext == workReceive \/ workOnEquities \/ workOnOptions \/ workReturn

SpecBatch == BatchInit /\ [][BatchNext]_vars

(***************************************************************************)
(* The control frames of both feeds, for every set of callbacks.           *)
(***************************************************************************)
Channels ==
    [equities |-> {<<"A", "B">>, <<"M", "S", "F", "T">>,
                   <<"l", "o", "b", "b", "y">>},
     options |-> {<<"A", "B">>, <<"l", "o", "b", "b", "y">>,
                  OldContractId(<<"A", "B">>, <<"2", "4", "0", "1", "1", "9">>,
                                "C", <<"0", "0", "1", "5", "0">>,
                                <<"5", "0", "0">>)}]

Callbacks ==
    [equities |-> SUBSET {"trade", "quote"},
     options |-> SUBSET {"trade", "quote", "refresh", "ua"}]

FramesInit ==
    /\ SessInit /\ CacheNew /\ TreeNew /\ GreekNew
    /\ callbackSet = FALSE
    /\ setter = "frames"
    /\ codec = NoCodec
    /\ strike = NoStrike
    /\ batch = NoBatch
    /\ delivery = NoDelivery
    /\ queue = NoQueue
    /\ auth = NoAuth
    /\ engine = NoEngine
    /\ \E feed \in {"equities", "options"} :
           \E on \in Callbacks[feed], symbol \in Channels[feed] :
               frame = [NoFrame EXCEPT !.feed = feed, !.on = on,
                                       !.symbol = symbol]

FramesNext == \E op \in {"join", "leave"} : compose(op)

SpecFrames == FramesInit /\ [][FramesNext]_vars

(***************************************************************************)
(* The trades of one contract delivered by a pool of one, two or three     *)
(* workers to an observer.                                                 *)
(***************************************************************************)
Wires == UNION {[1 .. k -> Timestamps] : k \in 1 .. 3}

Pools == {{"w1"}, {"w1", "w2"}, Workers}

DeliveryInit ==
    /\ SessInit /\ CacheNew /\ TreeNew /\ GreekNew
    /\ callbackSet = TRUE
    /\ setter = "delivery"
    /\ codec = NoCodec
    /\ strike = NoStrike
    /\ batch = NoBatch
    /\ frame = NoFrame
    /\ queue = NoQueue
    /\ auth = NoAuth
    /\ engine = NoEngine
    /\ \E wire \in Wires, pool \in Pools :
           delivery = [NoDelivery EXCEPT !.wire = wire, !.pool = pool]

DeliveryNext ==
    \/ \E w \in Workers : workerTakes(w)
    \/ \E w \in Workers : SetTradeWithCallback(w)
    \/ \E position \in 1 .. 3 : observerTask(position)

SpecDelivery == DeliveryInit /\ [][DeliveryNext]_vars

(***************************************************************************)
(* The read task filling the read queue while workers empty it.            *)
(***************************************************************************)
QueueInit ==
    /\ SessInit /\ CacheNew /\ TreeNew /\ GreekNew
    /\ callbackSet = FALSE
    /\ setter = "queue"
    /\ codec = NoCodec
    /\ strike = NoStrike
    /\ batch = NoBatch
    /\ frame = NoFrame
    /\ delivery = NoDelivery
    /\ auth = NoAuth
    /\ engine = NoEngine
    /\ queue = [NoQueue EXCEPT !.pc = "read"]

QueueNext == readSelect \/ readTest \/ readLog \/ workerReceives

SpecQueue == QueueInit /\ [][QueueNext]_vars

(***************************************************************************)
(* A session whose connection keeps failing: every attempt of reconnect    *)
(* tests the age of the token.  The session begins with the token Start    *)
(* has obtained, at hour 0 or half a day later, or with a new Client that  *)
(* Start is called on.                                                     *)
(***************************************************************************)
AuthInit ==
    /\ SessInit /\ CacheNew /\ TreeNew /\ GreekNew
    /\ callbackSet = FALSE
    /\ setter = "auth"
    /\ codec = NoCodec
    /\ strike = NoStrike
    /\ batch = NoBatch
    /\ frame = NoFrame
    /\ delivery = NoDelivery
    /\ queue = NoQueue
    /\ engine = NoEngine
    /\ \/ \E at \in {0, Day \div 2} :
              auth = [NoAuth EXCEPT !.now = at, !.tokenUpdateTime = at,
                                    !.token = 1, !.issued = 1, !.pc = "idle"]
       \/ auth = [NoAuth EXCEPT !.tokenUpdateTime = zeroTime,
                                 !.pc = "start",
                                 !.attempt.by = "Start",
                                 !.attempt.tokenUpdateTime = zeroTime,
                                 !.attempt.age = Day]

AuthNext ==
    \/ clock
    \/ reconnectAttempt
    \/ \E response \in Responses : reconnectAuth(response)
    \/ \E response \in Responses : getToken(response)
    \/ reconnectDial

SpecAuth == AuthInit /\ [][AuthNext]_vars

(***************************************************************************)
(* A GreekClient constructed on a cache whose observer slots are empty or  *)
(* hold an observer of the caller, for every update frequency.             *)
(***************************************************************************)
Frequencies == 0 .. 63

EngineInit ==
    /\ SessInit /\ CacheNew /\ TreeNew /\ GreekNew
    /\ callbackSet = FALSE
    /\ setter = "engine"
    /\ codec = NoCodec
    /\ strike = NoStrike
    /\ batch = NoBatch
    /\ frame = NoFrame
    /\ delivery = NoDelivery
    /\ queue = NoQueue
    /\ auth = NoAuth
    /\ \E frequency \in Frequencies,
          before \in [ObserverSlots -> {"nil", "caller"}] :
           engine = [NoEngine EXCEPT !.frequency = frequency,
                                     !.before = before,
                                     !.callbacks = before]

EngineNext == NewGreekClient

SpecEngine == EngineInit /\ [][EngineNext]_vars

(***************************************************************************)
(* A GreekClient with every observer registered, on a cache that receives  *)
(* option events, equity events and supplementary data.                    *)
(***************************************************************************)
\* underlyings of two and of five bytes, a call and a put on each
RoutedTickers == {<<"A", "B">>, <<"A", "B", "C", "D", "E">>}

RoutedContracts ==
    {ContractId(symbol, pc) : symbol \in RoutedTickers, pc \in {"C", "P"}}

RoutedKeys == {riskFreeInterestRateKey, dividendYieldKey}

RoutingInit ==
    /\ SessInit /\ CacheNew /\ TreeNew /\ GreekNew
    /\ callbackSet = FALSE
    /\ setter = "routing"
    /\ codec = NoCodec
    /\ strike = NoStrike
    /\ batch = NoBatch
    /\ frame = NoFrame
    /\ delivery = NoDelivery
    /\ queue = NoQueue
    /\ auth = NoAuth
    /\ engine = NoEngine

RoutingNext ==
    \/ \E contractId \in RoutedContracts :
           \/ updateGreeksForOptionsContractTrade(contractId)
           \/ updateGreeksForOptionsContractQuote(contractId)
    \/ \E tickerSymbol \in RoutedTickers :
           \/ updateGreeksForSecurityTrade(tickerSymbol)
           \/ updateGreeksForSecurityQuote(tickerSymbol)
           \/ updateGreeksSecuritySupplementalDatumUpdated(tickerSymbol)
    \/ \E key \in RoutedKeys : updateGreeks(key)

SpecRouting == RoutingInit /\ [][RoutingNext]_vars

(***************************************************************************)
(* The trades of one contract stored by a pool of one, two or three        *)
(* workers, with the GreekClient observing option trades.                  *)
(***************************************************************************)
RecomputeInit ==
    /\ SessInit /\ CacheNew /\ TreeNew /\ GreekNew
    /\ callbackSet = TRUE
    /\ setter = "recompute"
    /\ codec = NoCodec
    /\ strike = NoStrike
    /\ batch = NoBatch
    /\ frame = NoFrame
    /\ queue = NoQueue
    /\ auth = NoAuth
    /\ engine = NoEngine
    /\ \E wire \in Wires, pool \in Pools :
           delivery = [NoDelivery EXCEPT !.wire = wire, !.pool = pool]

RecomputeNext ==
    \/ \E w \in Workers : workerTakes(w)
    \/ \E w \in Workers : SetTradeCondition(w)
    \/ \E w \in Workers : SetTradeAssign(w)
    \/ \E position \in 1 .. 3 : recompute(position)

SpecRecompute == RecomputeInit /\ [][RecomputeNext]_vars

(***************************************************************************)
(* One call of calcImpliedVolatility for an underlying price that is a     *)
(* number, +Inf or NaN, with every outcome of the price comparisons.       *)
(***************************************************************************)
BisectionInit ==
    /\ SessInit /\ CacheNew /\ TreeNew
    /\ callbackSet = FALSE
    /\ setter = "bisection"
    /\ codec = NoCodec
    /\ strike = NoStrike
    /\ batch = NoBatch
    /\ frame = NoFrame
    /\ delivery = NoDelivery
    /\ queue = NoQueue
    /\ auth = NoAuth
    /\ engine = NoEngine
    /\ fetch = NoFetch
    /\ years = NoYears
    /\ \E underlyingPrice \in {"fin", "inf", "nan"} :
           bisection = [NoBisection EXCEPT !.underlyingPrice = underlyingPrice]

BisectionNext ==
    \/ calcImpliedVolatility
    \/ \E above \in BOOLEAN : halve(above)
    \/ normalSDistTerm
    \/ bisectionReturn

\* the task that runs the calculator is scheduled as long as it can step
SpecBisection ==
    BisectionInit /\ [][BisectionNext]_vars /\ WF_vars(BisectionNext)

(***************************************************************************)
(* One call of each REST fetcher of the GreekClient, with every sequence   *)
(* of responses of the endpoint.                                           *)
(***************************************************************************)
FetchInit ==
    /\ SessInit /\ CacheNew /\ TreeNew
    /\ callbackSet = FALSE
    /\ setter = "fetch"
    /\ codec = NoCodec
    /\ strike = NoStrike
    /\ batch = NoBatch
    /\ frame = NoFrame
    /\ delivery = NoDelivery
    /\ queue = NoQueue
    /\ auth = NoAuth
    /\ engine = NoEngine
    /\ bisection = NoBisection
    /\ years = NoYears
    /\ \E fetcher \in Fetchers :
           fetch = [NoFetch EXCEPT !.fetcher = fetcher, !.pc = "loop"]

FetchNext ==
    \/ \E response \in FetchResponses : fetchAttempt(response)
    \/ fetchReturn

SpecFetch == FetchInit /\ [][FetchNext]_vars

(***************************************************************************)
(* The two functions that compute the years to expiration, called for a    *)
(* contract that expires in a year, in a week or has expired, whose latest *)
(* trade and quote carry a timestamp or none (0); the quote may be nil.    *)
(***************************************************************************)
\* the clock: 2024-03-15 00:00 UTC, in minutes of Unix time
Now == 19797 * 24 * 60

Week == 7 * 24 * 60

ExpirationDates == {Now + yearSeconds \div 60, Now + Week, Now - Week}

EventTimes == {0, Now - 2 * Week, Now - 60, Now - 1}

YearsInit ==
    /\ SessInit /\ CacheNew /\ TreeNew
    /\ callbackSet = FALSE
    /\ setter = "years"
    /\ codec = NoCodec
    /\ strike = NoStrike
    /\ batch = NoBatch
    /\ frame = NoFrame
    /\ delivery = NoDelivery
    /\ queue = NoQueue
    /\ auth = NoAuth
    /\ engine = NoEngine
    /\ bisection = NoBisection
    /\ fetch = NoFetch
    /\ \E expirationDate \in ExpirationDates, trade \in EventTimes,
          quote \in EventTimes \cup {nil} :
           years = [NoYears EXCEPT !.now = Now,
                                   !.expirationDate = expirationDate,
                                   !.latestOptionTrade = trade,
                                   !.latestOptionQuote = quote]

YearsNext == blackScholesCalcYears \/ CalculateYears

SpecYears == YearsInit /\ [][YearsNext]_vars
(***************************************************************************)
(* Properties of the session.                                              *)
(***************************************************************************)
\* the key of a Join or Leave whose two statements (ledger update and send)
\* are half done
InFlight(k) == appPc \in {"joinSend", "leaveDel", "leaveAllDel"} /\ appKey = k

\* C1: subscription ledger idempotence.  For every key, the join frames
\* enqueued by Join minus the leave frames enqueued by Leave and LeaveAll
\* are exactly one while the key is in the ledger and zero while it is not,
\* whatever sequence of Join and Leave calls has completed: a second Join of
\* a key enqueues nothing, a Leave of a joined key enqueues one leave frame
\* and removes the key, a Leave of a key that is not in the ledger enqueues
\* nothing.
C1_LedgerIdempotence ==
    \A k \in Keys :
        ledgerFrames[k] = IF k \in subscriptions /\ ~InFlight(k) THEN 1 ELSE 0

\* C1 witness: between two calls, Join(AAPL) and then Leave(AAPL) have
\* completed: both frames are in the outbound queue and the key is gone
C1_Witness ==
    /\ appPc = "idle"
    /\ "AAPL" \notin subscriptions
    /\ writeChannel = <<composeJoinMsg("AAPL"), composeLeaveMsg("AAPL")>>
    /\ ledgerFrames["AAPL"] = 0

\* the keys that were in the ledger when Stop() was called
StopKeys == {k \in Keys : leaveState[k] # "-"}

\* C2 (as amended): graceful shutdown ordering.  Every leave frame of Stop
\* has been passed to the connection's WriteMessage before the close control
\* frame is passed to WriteControl, the ledger is empty once Stop has marked
\* the session stopped, and no frame is written after the close control
\* frame.
C2_ShutdownOrder ==
    /\ closeFrame # "none" => \A k \in Keys : leaveState[k] # "pending"
    /\ appPc \in {"wait", "stopped"} => subscriptions = {}
    /\ ~frameAfterClose

\* C2 witness: Stop was called with both keys in the ledger, both leave
\* frames went out on the open connection, then the close control frame
C2_Witness ==
    /\ closeFrame = "sent"
    /\ StopKeys = Keys
    /\ \A k \in Keys : leaveState[k] = "sent"

\* C2 as stated: whenever the close control frame has gone out on the socket,
\* a leave frame for every key the ledger held at Stop() has gone out before
C2_LeaveOnSocketBeforeClose ==
    /\ closeFrame = "sent" => \A k \in StopKeys : leaveState[k] = "sent"
    /\ appPc \in {"wait", "stopped"} => subscriptions = {}
    /\ ~frameAfterClose

\* C3: Stop() eventually returns.  Under fair scheduling, from every state
\* in which Stop() has been called, Stop() returns (all workers have exited)
\* unless the process has died of a panic.
C3_StopReturns == StopCalled ~> (appPc = "stopped" \/ crashed)

\* a step in which a backoff loop of the reconnect task starts an attempt
\* (an authentication request or a dial) after a sleep
AttemptStarts ==
    /\ rcPc \in {"sleep10", "sleep"}
    /\ rcPc' \in {"auth", "dial"}

\* C4: once Stop() has marked the session stopped, no backoff loop starts a
\* further authentication request or dial
C4_NoAttemptAfterStop ==
    [][(appPc \in {"wait", "stopped"}) => (~AttemptStarts)]_vars

\* the session streams: the read task reads and the closed flag is cleared
Streaming == readPc = "reading" /\ ~isClosed

\* C5: automatic reconnect.  Under fair scheduling, once a dial of the
\* reconnect task has succeeded the session eventually streams again, unless
\* the new connection fails in its turn, Stop() is called or the process
\* dies of a panic.
C5_ReconnectRestores ==
    (rcPc = "rejoin") ~> (Streaming \/ ~connLive \/ StopCalled \/ crashed)

\* the step client.reconnected <- true, which releases the read task
SignalsReady == rcPc = "rejoin" /\ rcPc' = "none"

\* C6, the part the code guarantees: when the reconnect task signals ready,
\* a join frame has been enqueued for every key that was in the ledger when
\* the new connection was dialed and has not been removed from it since
C6_RejoinBeforeReady ==
    [][SignalsReady => ((dialLedger \ gone) \subseteq visited)]_vars

\* a state of C6: both keys were in the ledger at the dial, a join frame
\* has been enqueued for each, and the read task is about to be released
C6_Witness ==
    /\ rcPc = "rejoin"
    /\ readPc = "waitReconnected"
    /\ dialLedger = Keys
    /\ visited = Keys
    /\ isClosed

\* C6: when the reconnect task signals ready, a join frame has been enqueued
\* for every key that was in the ledger when the new connection was dialed
C6_EveryDialKeyRejoined ==
    [][SignalsReady => (dialLedger \subseteq visited)]_vars

\* C7: Start() never launches the read and write tasks on a session that
\* has no connection
C7_TasksNeedConnection ==
    (readPc # "none" \/ writePc # "none") => wsConn # "nil"

\* the sleep, in seconds, that follows the k-th consecutive failed attempt
Schedule(k) ==
    IF k = 1 THEN 10
    ELSE IF k = 2 THEN 30
    ELSE IF k = 3 THEN 60
    ELSE IF k = 4 THEN 300
    ELSE 600

\* C8: backoff schedule.  Whenever a backoff loop (of Start's getToken or of
\* the reconnect task) sleeps after its k-th consecutive failed attempt, the
\* sleep is 10, 30, 60, 300, 600 seconds for k = 1..5 and 600 afterwards;
\* every loop counts its failures from zero, so the loop after a success
\* starts at 10 again.
C8_BackoffSchedule ==
    (rcPc = "sleep" \/ appPc = "startSleep") =>
        boFails >= 1 /\ backoff = Schedule(boFails)

\* C8 witness: the reconnect task sleeps after its sixth consecutive failure
C8_Witness ==
    /\ rcPc = "sleep"
    /\ boFails = 6
    /\ backoff = 600

(***************************************************************************)
(* Properties of the cache.                                                *)
(***************************************************************************)
\* the record the set operation under exercise works on
Exercised ==
    IF setter \in {"SetEquitiesTrade", "SetEquitiesQuote",
                   "SetEquitiesTradeCandleStick",
                   "SetEquitiesQuoteCandleStick"}
    THEN security ELSE contract

\* C9: timestamp gate of a single set operation.  For every gated slot, a
\* set of an event whose timestamp is less than or equal to the stored
\* event's returns false and leaves the slot unchanged; a set of an event
\* with a strictly greater timestamp, or on an empty slot, returns true and
\* stores the event.
C9_TimestampGate ==
    (lastCall.slot # "-" /\ ~lastCall.arg.nil) =>
        IF ~lastCall.before.nil /\ lastCall.arg.ts <= lastCall.before.ts
        THEN /\ lastCall.result = FALSE
             /\ Exercised[lastCall.slot] = lastCall.before
        ELSE /\ lastCall.result = TRUE
             /\ Exercised[lastCall.slot] = lastCall.arg

\* C9 witness: a bid quote candlestick with the timestamp of the stored one
\* has been refused
C9_Witness ==
    /\ setter = "SetQuoteCandleStick"
    /\ lastCall.slot = "latestBidQuoteCandleStick"
    /\ ~lastCall.before.nil
    /\ ~lastCall.arg.nil
    /\ lastCall.arg.ts = lastCall.before.ts
    /\ lastCall.result = FALSE
    /\ contract.latestBidQuoteCandleStick = lastCall.before

\* C10: latest wins under concurrency.  While workers call SetTrade on the
\* same contract at the same time, the timestamp stored in the slot is the
\* largest timestamp of the calls that have returned.
C10_LatestWins == contract.latestTrade.ts = maxDone


(***************************************************************************)
(* Properties of the dataCache and its observers.                          *)
(***************************************************************************)
\* C11: one observer invocation per accepted write.  With the observer of
\* its kind registered, a set operation for an option event (trade, quote,
\* refresh, unusual activity, candlestick) that the cache accepts schedules
\* exactly one invocation of that observer, and one that the cache rejects
\* schedules none.
C11_OneInvocationPerAccept ==
    (treeCall.op \in OptionSetters /\ callbackSet) =>
        treeCall.scheduled = IF treeCall.result THEN 1 ELSE 0

\* the latest trade a get through the cache yields for the contract of event:
\* GetLatestOptionsTrade(ticker, contract)
GetLatestOptionsTrade(tickerSymbol, contractId) ==
    IF tickerSymbol \notin DOMAIN securities THEN NilEvent
    ELSE IF contractId \notin DOMAIN securities[tickerSymbol].contracts
         THEN NilEvent
         ELSE objects[securities[tickerSymbol].contracts[contractId]].latestTrade

\* C12: accepted means committed.  Whenever SetOptionsTrade has returned
\* true for an event, a get through the cache for the event's ticker and
\* contract yields an event whose timestamp is at least the accepted one's,
\* also when two tasks deliver the first events of a new contract at the
\* same time.
C12_AcceptedIsCommitted ==
    \A w \in Tasks :
        tDone[w].result =>
            LET got == GetLatestOptionsTrade(
                           extractTickerFromContract(tDone[w].arg.id),
                           tDone[w].arg.id)
            IN  ~got.nil /\ got.ts >= tDone[w].arg.ts

\* two *float64 hold the same value: both nil, or both point to the same
\* number
sameValue(p, q) ==
    IF p = NilPtr \/ q = NilPtr THEN p = q ELSE p.val = q.val

\* the supplementary-data map the last call worked on, after the call
SuppMapOfCall ==
    CASE treeCall.op = "SetSupplementaryDatum" -> supplementaryData
      [] treeCall.op = "SetSecuritySupplementalDatum" ->
             securities[<<"A", "B">>].supplementaryData
      [] treeCall.op = "SetOptionSupplementalDatum" ->
             objects[securities[<<"A", "B">>].contracts[
                         ContractId(<<"A", "B">>, "C")]].supplementaryData

\* C13: supplementary-datum no-op.  At global, security and contract scope,
\* a set whose merged value equals the value stored under the key returns
\* false, leaves the stored value as it was and schedules no observer; a set
\* whose merged value differs returns true and stores the merged value.
C13_SameValueIsNoOp ==
    (treeCall.op \in SuppSetters /\ treeCall.merged) =>
        IF sameValue(treeCall.newValue, treeCall.before)
        THEN /\ treeCall.result = FALSE
             /\ treeCall.scheduled = 0
             /\ get(SuppMapOfCall, treeCall.key) = treeCall.before
        ELSE /\ treeCall.result = TRUE
             /\ get(SuppMapOfCall, treeCall.key) = treeCall.newValue

\* the number stored under the key in the map of a scope (zero when absent)
stored(scope) ==
    IF scope = "security" /\ <<"A", "B">> \notin DOMAIN securities THEN 0
    ELSE get(suppMap(scope), "DividendYield").val

\* C14: merge atomicity.  While tasks write the same supplementary key at
\* the same time, the old value a task hands to its merge function is the
\* value committed at the moment of its own commit, and no update is lost:
\* after n writes that each add one, the stored number is n.
C14_MergeAtomicity ==
    /\ \A scope \in Scopes : stored(scope) = commits[scope]
    /\ \A w \in Tasks :
           tPc[w] = "merge" =>
               tOld[w] = get(suppMap(tArg[w].scope), tArg[w].key)

\* C14 witness: one task has committed its sum while the other waits for the
\* mutex of the same map, and an earlier write is already in the sum
C14_Witness ==
    \E w1, w2 \in Tasks :
        /\ tPc[w1] = "lock"
        /\ tPc[w2] = "unlock"
        /\ tArg[w1].scope = tArg[w2].scope
        /\ commits[tArg[w1].scope] = 2
        /\ stored(tArg[w1].scope) = 2

\* a step of an observer task: one scheduled invocation fewer
observerStep == \E op \in DOMAIN pending : pending'[op] < pending[op]

\* C15: observer panic isolation.  No panic of an observer ends the
\* pipeline, a step of an observer task, panicking or not, changes neither
\* the cache nor the result the set operation has returned, and a set
\* operation after a panic still accepts and schedules as before.
C15_PanicIsolation ==
    [][/\ pipeline' = "running"
       /\ observerStep =>
              UNCHANGED <<securities, objects, supplementaryData, treeCall>>
       /\ (treeCall'.op \in Observed /\ treeCall'.afterPanic) =>
              treeCall'.scheduled = IF treeCall'.result THEN 1 ELSE 0]_vars

\* C15 witness: an observer has panicked, and a set operation called after
\* that has returned true and scheduled its observer
C15_Witness ==
    /\ panicSeen
    /\ treeCall.op \in Observed
    /\ treeCall.afterPanic
    /\ treeCall.result
    /\ pendingCount > 0
    /\ pipeline = "running"

\* the three maps of the cache the bulk gets copy
cacheMaps == <<securities, supplementaryData>>

\* C16: bulk gets return snapshots.  The map a bulk get returns has exactly
\* the keys the map of the cache has at the call; a set operation that
\* inserts into the cache afterwards does not change the returned map; and a
\* change the caller makes to the returned map does not change the cache.
C16_BulkGetsAreSnapshots ==
    [][/\ treeCall'.op \in Gets =>
              /\ DOMAIN seen' = DOMAIN cacheMap(returned'.of)
              /\ seen' = cacheMap(returned'.of)
              /\ cacheMaps' = cacheMaps
       /\ treeCall'.op \in BulkWriters => seen' = seen
       /\ treeCall'.op = "delete" => cacheMaps' = cacheMaps]_vars

\* C16 witness: the caller holds a returned map; the cache has since got a
\* key the returned map lacks, and the caller has deleted from the returned
\* map a key the cache still has
C16_Witness ==
    /\ returned.of # "none"
    /\ \E k \in DOMAIN cacheMap(returned.of) : k \notin returned.atCall
    /\ \E k \in returned.atCall :
           k \notin DOMAIN seen /\ k \in DOMAIN cacheMap(returned.of)

\* the set operations that pick a slot by the Type of the event, with their
\* ask slot and their bid slot
TypedSetters ==
    {"SetQuoteCandleStick", "SetEquitiesQuote", "SetEquitiesQuoteCandleStick"}

askSlot ==
    IF setter = "SetEquitiesQuote" THEN "latestAskQuote"
    ELSE "latestAskQuoteCandleStick"

bidSlot ==
    IF setter = "SetEquitiesQuote" THEN "latestBidQuote"
    ELSE "latestBidQuoteCandleStick"

\* C17: ask and bid are separate slots.  A quote or quote candlestick of
\* type ASK changes no slot but the ask slot, one of type BID no slot but
\* the bid slot, and one of any other type changes no slot and returns
\* false.
C17_AskBidSeparate ==
    [][(setter \in TypedSetters /\ ~lastCall'.arg.nil) =>
          /\ lastCall'.arg.type = "ASK" =>
                 /\ \A s \in DOMAIN Exercised \ {askSlot} :
                        Exercised'[s] = Exercised[s]
                 /\ lastCall'.result => Exercised'[askSlot] = lastCall'.arg
          /\ lastCall'.arg.type = "BID" =>
                 /\ \A s \in DOMAIN Exercised \ {bidSlot} :
                        Exercised'[s] = Exercised[s]
                 /\ lastCall'.result => Exercised'[bidSlot] = lastCall'.arg
          /\ lastCall'.arg.type \notin {"ASK", "BID"} =>
                 /\ Exercised' = Exercised
                 /\ lastCall'.result = FALSE]_vars

\* C17 witness: an ask newer than the stored bid has been accepted, and the
\* bid is still stored
C17_Witness ==
    /\ setter \in TypedSetters
    /\ lastCall.arg.type = "ASK"
    /\ lastCall.result
    /\ Exercised[askSlot] = lastCall.arg
    /\ ~Exercised[bidSlot].nil
    /\ Exercised[bidSlot].ts < lastCall.arg.ts

\* the contract ids a securities map holds under a ticker
contractIds(secs, tickerSymbol) == DOMAIN secs[tickerSymbol].contracts

\* C18: entries are created lazily and never removed.  No operation of the
\* cache takes a ticker out of the securities map or a contract id out of
\* the contracts map of a security, and a read operation adds none.
C18_EntriesOnlyGrow ==
    [][/\ DOMAIN securities \subseteq DOMAIN securities'
       /\ \A t \in DOMAIN securities :
              contractIds(securities, t) \subseteq contractIds(securities', t)
       /\ treeCall'.op \in Gets =>
              /\ DOMAIN securities' = DOMAIN securities
              /\ \A t \in DOMAIN securities :
                     contractIds(securities', t) = contractIds(securities, t)
              /\ Len(objects') = Len(objects)]_vars

\* C18 witness: the second ticker has been added to the map beside the
\* first, and a get for a contract the cache does not have has returned
\* nothing and added nothing
C18_Witness ==
    /\ DOMAIN securities = TreeTickers
    /\ \A t \in TreeTickers : contractIds(securities, t) = {}
    /\ treeCall.op = "GetOptionsContractData"
    /\ ~treeCall.result

\* C19: owning security of an option update.  For every 21-byte contract id
\* the cache files an option trade under the ticker that is the id's first
\* six bytes without the trailing '_', which is what GetUnderlyingSymbol
\* returns, for symbols of one to six bytes.
C19_FiledUnderUnderlying ==
    (treeCall.op = "SetOptionsTrade" /\ ~treeCall.arg.nil
        /\ Len(treeCall.arg.id) = 21) =>
        LET tickerSymbol == GetUnderlyingSymbol(treeCall.arg.id) IN
        /\ extractTickerFromContract(treeCall.arg.id) = tickerSymbol
        /\ tickerSymbol \in DOMAIN securities
        /\ treeCall.arg.id \in contractIds(securities, tickerSymbol)

\* C20: every Greek stored in the greeks map of a contract is valid and has
\* five finite components; a calculation with an invalid result or with a
\* NaN or infinite component writes nothing.
C20_StoredGreeksAreFinite ==
    \A key \in DOMAIN greeks : IsValidGreek(greeks[key])
(***************************************************************************)
(* Properties of the wire codec and of the worker tasks.                   *)
(***************************************************************************)
\* C21: codec round trip.  A valid 21-byte contract id converted to the new
\* format and back to the old format is the id again, also when its three
\* fractional strike digits are not zero.
C21_RoundTrip == codec.done = 2 => codec.old = codec.id

\* the strike an id spells, in thousandths: NNNNN and FFF
spelled(id) ==
    Digit(id[14]) * 10000000 + Digit(id[15]) * 1000000
    + Digit(id[16]) * 100000 + Digit(id[17]) * 10000 + Digit(id[18]) * 1000
    + Digit(id[19]) * 100 + Digit(id[20]) * 10 + Digit(id[21])

\* C22: strike parsing.  Every strike accessor returns, for every 21-byte
\* contract id, the whole part NNNNN plus FFF/1000: the whole part does not
\* wrap around and no fractional digit is dropped.
C22_StrikeParsed == strike.of # "-" => strike.value = spelled(strike.id)

\* C23: no crash on bad data.  Whatever the payload (empty, truncated, with
\* a symbol length larger than the record, with a count larger than the
\* records present), the worker does not fail: it never panics.
C23_NoCrashOnBadData == batch.pc # "panic"

\* C28: a nil callback suppresses decoding.  A record whose kind has a nil
\* callback is not decoded: every record the worker decoded is of a kind
\* whose callback is set.
C28_NilCallbackSkipsDecoding ==
    \A k \in 1 .. Len(batch.decoded) : batch.decoded[k][2] \in batch.on

\* the records of the payload from the offset at up to the record the
\* equities worker stands on, by their length bytes
RECURSIVE recordsBefore(_)
recordsBefore(at) ==
    IF at >= batch.startIndex THEN <<>>
    ELSE <<<<at, equityKind(byteAt(data, at))>>>>
             \o recordsBefore(at + byteAt(data, at + 1))

\* the kind of the record has a callback
listened(record) == record[2] \in batch.on

\* C29: an unknown discriminator discards the rest of the batch.  In the
\* equities worker, once a record of a type other than 0, 1 or 2 is met, no
\* later record is delivered, the records before it have been delivered
\* exactly once (to the callbacks that are set), and the loop takes at most
\* count iterations.
C29_InvalidDiscardsRest ==
    batch.feed = "equities" /\ batch.invalid > 0 =>
        /\ Len(batch.delivered) = batch.frozen
        /\ batch.delivered = SelectSeq(recordsBefore(1), listened)
        /\ batch.i <= batch.count

\* a payload of three records, a quote, a record of type 7 and a trade, has
\* been walked to its end with both callbacks set
C29_Witness ==
    /\ batch.feed = "equities"
    /\ batch.pc = "done"
    /\ batch.on = {"trade", "quote"}
    /\ batch.invalid = 2
    /\ batch.delivered = <<<<1, "quote">>>>
    /\ batch.n = 1 + 24 + 24 + 28
    /\ byteAt(data, 49) = 0

\* the weight of each kind of callback in the mask of an options join
maskBit(kind) ==
    CASE kind = "trade" -> 1 [] kind = "quote" -> 2 [] kind = "refresh" -> 4
      [] kind = "ua" -> 8

RECURSIVE maskOf(_)
maskOf(kinds) ==
    IF kinds = {} THEN 0
    ELSE LET kind == CHOOSE k \in kinds : TRUE
         IN  maskBit(kind) + maskOf(kinds \ {kind})

\* the bytes of the channel: the symbol, in the new format for options
channelOf(feed, symbol) ==
    IF feed = "options" THEN convertOldContractIdToNew(symbol) ELSE symbol

\* C24: control-frame layout.  On both feeds a join frame is [74, m] and the
\* channel bytes, a leave frame is [76, 0] and the channel bytes; for
\* options m is the bit-OR of trade=1, quote=2, refresh=4, UA=8 over the
\* callbacks that are set, for equities m is 1 exactly when the quote
\* callback is nil.
C24_FrameLayout ==
    frame.op # "-" =>
        /\ frame.channel = channelOf(frame.feed, frame.symbol)
        /\ frame.op = "leave" => frame.head = <<76, 0>>
        /\ frame.op = "join" /\ frame.feed = "options" =>
               frame.head = <<74, maskOf(frame.on)>>
        /\ frame.op = "join" /\ frame.feed = "equities" =>
               frame.head = <<74, IF "quote" \in frame.on THEN 0 ELSE 1>>

\* C25: per-contract delivery order.  Of two trades of one contract that
\* both pass the timestamp gate, the observer of the one that arrived first
\* on the wire is invoked before the observer of the one that arrived later,
\* whatever the size of the worker pool and the scheduling of the observer
\* tasks: the observers run in the order of the positions on the wire.
C25_DeliveryInWireOrder ==
    \A i, j \in 1 .. Len(delivery.invoked) :
        i < j => delivery.invoked[i] < delivery.invoked[j]

\* the log has room for the next entry
logOpen == Len(queue.log) < MaxLog

\* C26: back-pressure hysteresis.  The read task never blocks on the read
\* queue (it always has a step to take); a payload is dropped only when the
\* queue is at capacity; the log entries 'read channel full' and 'read
\* channel draining' alternate strictly, starting with 'full'; 'draining'
\* is logged only when the depth is below 90% of the capacity.
C26_Hysteresis ==
    /\ logOpen => ENABLED readStep
    /\ queue.dropped > 0 => queue.dropDepth = QueueCap
    /\ \A k \in 1 .. Len(queue.log) :
           /\ queue.log[k].entry = IF k % 2 = 1 THEN "read channel full"
                                   ELSE "read channel draining"
           /\ queue.log[k].entry = "read channel draining" =>
                  queue.log[k].depth * 10 < QueueCap * 9

\* 'full', 'draining' and 'full' again have been logged
C26_Witness ==
    /\ Len(queue.log) = 3
    /\ queue.log[2].entry = "read channel draining"
    /\ queue.dropped > 0

\* C27: drain before exit.  Once Stop() has returned (every worker has
\* exited, each with the read queue empty and the closed and the stopped
\* flag set) the read queue is empty and stays empty: no payload is placed
\* in it after the last worker has exited.
C27_DrainBeforeExit == appPc = "stopped" => readChannel = 0

\* the attempt of reconnect has ended
attemptOver == auth.pc = "idle" /\ auth.attempt.by = "reconnect"

\* C30: token reuse.  An attempt to connect after a failure authenticates
\* exactly when the cached token is 24 hours old or older; with a fresher
\* token no authentication request is made and the dial uses the cached
\* token; a failed authentication request leaves the token and its
\* timestamp as they were.
C30_TokenReuse ==
    attemptOver =>
        /\ auth.attempt.requested <=> auth.attempt.age >= 24
        /\ ~auth.attempt.requested =>
               /\ auth.attempt.dialled = auth.attempt.token
               /\ auth.token = auth.attempt.token
        /\ auth.attempt.requested /\ auth.attempt.response # "ok" =>
               /\ auth.token = auth.attempt.token
               /\ auth.tokenUpdateTime = auth.attempt.tokenUpdateTime

\* an attempt made when the token was exactly 24 hours old has asked for a
\* new one and dialled with it
C30_Witness ==
    /\ attemptOver
    /\ auth.attempt.age = 24
    /\ auth.attempt.requested
    /\ auth.attempt.response = "ok"
    /\ auth.attempt.dialled = auth.attempt.token + 1

\* C31: authentication failures are retried.  A response that is an HTTP
\* error, has another status than 200 or has an empty body is a failed
\* attempt: it leaves the cached token and its timestamp as they were and
\* is followed by no dial; the session never dials with an empty token.
C31_NoEmptyToken ==
    /\ auth.attempt.dialled # 0
    /\ auth.attempt.requested /\ auth.attempt.response # "ok" =>
           /\ auth.token = auth.attempt.token
           /\ auth.pc # "dial"

\* the flags a frequency is made of: the powers of two that add up to it
RECURSIVE flagsIn(_, _)
flagsIn(f, bit) ==
    IF f = 0 THEN {}
    ELSE (IF f % 2 = 1 THEN {bit} ELSE {}) \cup flagsIn(f \div 2, 2 * bit)

\* C32: update-frequency flags.  Constructing the Greek engine sets the
\* observer for options trade, options quote, security supplementary datum,
\* global supplementary datum, equity trade and equity quote exactly for the
\* flags set in the bitmask; for a flag that is not set the observer that
\* was in the slot is left as it was.
C32_ObserversFollowFlags ==
    engine.built =>
        \A r \in Registrations :
            IF flagOf(r.flag) \in flagsIn(engine.frequency, 1)
            THEN engine.callbacks[r.slot] = r.handler
            ELSE engine.callbacks[r.slot] = engine.before[r.slot]

\* an engine built for options trades and equity quotes only, on a cache
\* whose six slots held observers of the caller
C32_Witness ==
    /\ engine.built
    /\ engine.frequency = 33
    /\ \A slot \in ObserverSlots : engine.before[slot] = "caller"
    /\ engine.callbacks["optionsTradeUpdatedCallback"]
           = "updateGreeksForOptionsContractTrade"
    /\ engine.callbacks["optionsQuoteUpdatedCallback"] = "caller"


\* the contracts the cache holds, and those of them whose underlying symbol
\* is tickerSymbol
cached == UNION {engine.securities[t] : t \in DOMAIN engine.securities}

contractsOf(tickerSymbol) ==
    {c \in cached : GetUnderlyingSymbol(c) = tickerSymbol}

\* C33: Greek routing.  The calculators run on all contracts of all
\* securities for an update of the risk-free-rate key and on no contract for
\* an update of another global key, on all contracts of the affected
\* security for a security supplementary-datum update, an equity trade or an
\* equity quote, and on the affected contract only for an options trade or
\* quote.
C33_RoutingExact ==
    CASE engine.event.kind = "globalDatum" ->
             engine.ran = IF engine.event.on = riskFreeInterestRateKey
                          THEN cached ELSE {}
      [] engine.event.kind \in {"securityDatum", "equityTrade", "equityQuote"} ->
             engine.ran = contractsOf(engine.event.on)
      [] engine.event.kind \in {"optionsTrade", "optionsQuote"} ->
             engine.ran = {engine.event.on}
      [] OTHER -> TRUE

\* C34: a Greek recomputation triggered by an accepted trade X of a contract
\* reads from the trade slot of the contract a trade whose timestamp is at
\* least the timestamp of X, also when other workers store trades of the
\* contract at the same time.
C34_RecomputeSeesTrigger ==
    \A position \in DOMAIN delivery.read :
        delivery.read[position] >= delivery.wire[position]

\* C35: the implied-volatility bisection terminates for every input, after
\* exactly 16 halvings of the interval [0.0, 5.0] whatever the outcomes of
\* the price comparisons, and the value it returns lies strictly between 0.0
\* and 5.0, with a final bracket no wider than 1e-4.
C35_BisectionTerminates ==
    /\ <>(bisection.pc = "returned")
    /\ [](bisection.pc = "returned" =>
              /\ bisection.halvings = 16
              /\ bisection.result > 0
              /\ bisection.result < 5 * Scale
              /\ bisection.high - bisection.low <= Scale \div 10000)

\* the attempts of the fetcher that failed
failedAttempts == {i \in 1 .. Len(fetch.responses) : fetch.responses[i] # "ok"}

\* C36: REST fetchers are bounded.  The risk-free-rate fetcher makes at most
\* 10 requests, the bulk dividend fetcher at most 5 and the per-ticker
\* dividend fetcher at most 3; each stops at its first successful attempt,
\* each returns after its last attempt, and when every attempt fails the
\* cache is left unchanged.
C36_FetchersBounded ==
    fetch.pc # "off" =>
        LET most == CASE fetch.fetcher = "FetchRiskFreeInterestRate" -> 10
                      [] fetch.fetcher = "fetchBulkCompanyDividendYield" -> 5
                      [] fetch.fetcher = "FetchDividendYieldForTicker" -> 3
            requests == Len(fetch.responses)
            last == \/ requests = most
                    \/ requests > 0 /\ requests \notin failedAttempts
        IN  /\ requests <= most
            /\ \A i \in 1 .. requests : i < requests => i \in failedAttempts
            /\ fetch.pc = "loop" /\ last =>
                   /\ ENABLED fetchReturn
                   /\ \A response \in FetchResponses :
                          ~ENABLED fetchAttempt(response)
            /\ fetch.pc = "returned" => last
            /\ failedAttempts = 1 .. requests => fetch.sets = 0

\* the risk-free-rate fetcher has returned after ten failed requests
C36_Witness ==
    /\ fetch.fetcher = "FetchRiskFreeInterestRate"
    /\ fetch.pc = "returned"
    /\ Len(fetch.responses) = 10
    /\ failedAttempts = 1 .. 10
    /\ fetch.sets = 0

\* the reference instant of the claim: the larger of the two timestamps, the
\* clock when both are zero (a quote that is nil has none)
reference ==
    LET quoteTime == IF years.latestOptionQuote = nil THEN 0
                     ELSE years.latestOptionQuote
        event == IF quoteTime > years.latestOptionTrade THEN quoteTime
                 ELSE years.latestOptionTrade
    IN  IF event = 0 THEN years.now ELSE event

\* C37: years to expiration.  The reference instant is the larger of the
\* latest option-trade and option-quote timestamps, or the current time when
\* both are zero; the result is max(0, expiration - reference) / 31557600
\* seconds and is never negative.
C37_YearsToExpiration ==
    years.by # "-" =>
        LET expected == IF years.expirationDate - reference > 0
                        THEN years.expirationDate - reference ELSE 0
        IN  /\ years.result.num >= 0
            /\ years.result.num = expected
            /\ expected > 0 => years.result.den * 60 = 31557600

\* the application thread stands before a statement that writes the ledger:
\* client.subscriptions[symbol] = true or delete(client.subscriptions, key)
writesLedger ==
    \/ appPc = "joinCheck" /\ needsJoin(appKey)
    \/ appPc \in {"leaveDel", "leaveAllDel"}

\* the reconnect task is inside its range over the ledger: the new
\* connection is dialled and a key of the ledger is still to be produced
rangesLedger == rcPc = "rejoin" /\ ~rangeDone

\* C38: ledger race freedom.  In no reachable state does the application
\* thread (in Join, Leave, LeaveAll or Stop) write the subscription ledger
\* while the reconnect task iterates it to re-emit the join frames, so that
\* no key can be missed by the iteration or the map be written under it.
C38_LedgerRaceFree == ~(rangesLedger /\ writesLedger)

\* the read task has met the error of ReadMessage on the current connection
\* and waits for the reconnect task, which has not dialled a new one yet
failureKnown == readPc = "waitReconnected" /\ rcPc # "rejoin"

\* C39: the closed flag tracks the connection.  In no reachable state does
\* isClosed read false after the read task has detected the failure of the
\* current connection and before a new connection is established: the late
\* write isClosed = false of the reconnect task does not overwrite a failure
\* detected on the new connection, so the write task finds the flag closed
\* and sends no frame of the outbound queue into the dead connection.
C39_ClosedFlagTracksConnection == failureKnown => isClosed

\* C40: one entry per contract.  The OptionsContractData installed in the
\* contracts map when a contract is first referenced is never replaced by
\* another object, also when several tasks reference a new contract at the
\* same time: every task that tests or stores a trade does so on the object
\* the map holds for the contract.
C40_OneEntryPerContract ==
    \A w \in Tasks :
        tPc[w] \in {"test", "store"} =>
            tRef[w] = securities[extractTickerFromContract(tArg[w].id)]
                          .contracts[tArg[w].id]
====
